---- MODULE Spec2Model ----
(***************************************************************************)
(* EVT 3.0 streaming decoder (evt3-core): the word parser, the event-type  *)
(* taxonomy and the stateful decoder Evt3Decoder, as a state machine.      *)
(*                                                                         *)
(* A word is a u16, modelled as an integer in 0..65535; the bit-field      *)
(* extractions of parser.rs are written with \div and % on powers of two.  *)
(* u64 fields are unbounded integers: the largest value the model reaches  *)
(* is far below 2^64.  The u16 addition of process_vector_events keeps its *)
(* width (see process_vector_events).                                      *)
(***************************************************************************)
EXTENDS Integers, Sequences, FiniteSets, TLC

VARIABLES
    decoder,          \* the Evt3Decoder fields (time_base .. metadata)
    cd_events,        \* the caller's CD sink (Vec<CdEvent>); in decode_file its local cd_events
    trigger_events,   \* the caller's trigger sink (Vec<TriggerEvent>); in decode_file its local
    overflow_checks,  \* build profile: TRUE = arithmetic overflow panics
    panicked,         \* a call has panicked (the thread is unwinding)
    fed,              \* history: the words given to decode_buffer since new/reset
    was_reset,        \* history: reset has been called on this decoder
    last_time_high,   \* history: value of the latest TIME_HIGH word since new/reset, -1 if none
    last,             \* history: the last call, with the state it started from
    steps,            \* history: number of calls made
    file,             \* decode_file: the bytes of the file behind `reader`
    pos,              \* decode_file: number of bytes consumed from `reader`
    pc,               \* decode_file: "idle", "header", "data" or "returned"
    result,           \* decode_file: the value returned to the caller
    data_start,       \* history: pos when parse_header returned
    io_error,         \* history: the error a read call of decode_file returned, "None" if none
    other,            \* a second decoder instance with its own two sinks
    calls             \* history: the calls made on the two instances, in order

fileVars == <<file, pos, pc, result, data_start, io_error>>

twoVars == <<other, calls>>

vars == <<decoder, cd_events, trigger_events, overflow_checks, panicked,
          fed, was_reset, last_time_high, last, steps,
          file, pos, pc, result, data_start, io_error, other, calls>>

(***************************************************************************)
(* Bounds of the model.                                                    *)
(***************************************************************************)
\* Spec: the most words one decoder is given between two resets.
MaxWords == 4
\* Spec: the most words in one decode_buffer call.
MaxChunk == 2
\* StepSpec: the most calls made from a start state.
MaxSteps == 2

(***************************************************************************)
(* parser.rs                                                               *)
(***************************************************************************)
get_event_type(word) == (word \div 4096) % 16

\* Mutant of addr_y_get_y: the mask keeps bit 11 (0x0FFF for 0x07FF).
addr_y_get_y_KeepsBit11(word) == word % 4096

addr_y_get_y(word) == word % 2048

addr_x_get_x(word) == word % 2048

addr_x_get_polarity(word) == (word \div 2048) % 2

vect_base_x_get_x(word) == word % 2048

vect_base_x_get_polarity(word) == (word \div 2048) % 2

vect_12_get_valid(word) == word % 4096

vect_8_get_valid(word) == word % 256

time_get_value(word) == word % 4096

ext_trigger_get_id(word) == (word \div 256) % 16

ext_trigger_get_value(word) == word % 2

(***************************************************************************)
(* types.rs                                                                *)
(***************************************************************************)
\* Mutant of RawEventType::from_u8: tag 0x9 is taken for TIME_HIGH (0x8).
RawEventType_from_u8_NineIsTimeHigh(value) ==
    CASE value = 0  -> "AddrY"
      [] value = 2  -> "AddrX"
      [] value = 3  -> "VectBaseX"
      [] value = 4  -> "Vect12"
      [] value = 5  -> "Vect8"
      [] value = 6  -> "TimeLow"
      [] value = 7  -> "Continued4"
      [] value = 8  -> "TimeHigh"
      [] value = 9  -> "TimeHigh"
      [] value = 10 -> "ExtTrigger"
      [] value = 14 -> "Others"
      [] value = 15 -> "Continued12"
      [] OTHER      -> "None"

\* RawEventType::from_u8: the variant of a 4-bit tag, "None" for a reserved tag.
RawEventType_from_u8(value) ==
    CASE value = 0  -> "AddrY"
      [] value = 2  -> "AddrX"
      [] value = 3  -> "VectBaseX"
      [] value = 4  -> "Vect12"
      [] value = 5  -> "Vect8"
      [] value = 6  -> "TimeLow"
      [] value = 7  -> "Continued4"
      [] value = 8  -> "TimeHigh"
      [] value = 10 -> "ExtTrigger"
      [] value = 14 -> "Others"
      [] value = 15 -> "Continued12"
      [] OTHER      -> "None"

\* RawEventType::TimeHigh as u8
TimeHighTag == 8

CdEvent_new(x, y, polarity, timestamp) ==
    [x |-> x, y |-> y, polarity |-> polarity, timestamp |-> timestamp]

TriggerEvent_new(value, id, timestamp) ==
    [value |-> value, id |-> id, timestamp |-> timestamp]

SensorMetadata_default == [width |-> 1280, height |-> 720]

(***************************************************************************)
(* decoder.rs: constants                                                   *)
(***************************************************************************)
MAX_TIMESTAMP_BASE == (4096 - 1) * 4096

TIME_LOOP == MAX_TIMESTAMP_BASE + 4096

LOOP_THRESHOLD == 10 * 4096

\* u16::MAX + 1: current_base_x and end_x are u16
U16 == 65536

(***************************************************************************)
(* decoder.rs: Evt3Decoder                                                 *)
(***************************************************************************)
Evt3Decoder_new ==
    [time_base |-> 0, time_low |-> 0, current_time |-> 0,
     n_time_high_loops |-> 0, first_time_base_set |-> FALSE,
     current_y |-> 0, current_base_x |-> 0, current_polarity |-> 0,
     metadata |-> SensorMetadata_default]

\* Mutant of reset: n_time_high_loops is left as it is.
reset_KeepsLoops(self) ==
    [self EXCEPT !.time_base = 0, !.time_low = 0, !.current_time = 0,
                 !.first_time_base_set = FALSE,
                 !.current_y = 0, !.current_base_x = 0,
                 !.current_polarity = 0]

\* Mutant of reset: first_time_base_set is left as it is.
reset_KeepsArmed(self) ==
    [self EXCEPT !.time_base = 0, !.time_low = 0, !.current_time = 0,
                 !.n_time_high_loops = 0,
                 !.current_y = 0, !.current_base_x = 0,
                 !.current_polarity = 0]

\* reset(&mut self): every field but metadata is assigned.
reset(self) ==
    [self EXCEPT !.time_base = 0, !.time_low = 0, !.current_time = 0,
                 !.n_time_high_loops = 0, !.first_time_base_set = FALSE,
                 !.current_y = 0, !.current_base_x = 0,
                 !.current_polarity = 0]

\* Mutant of process_time_high: a detected loop is counted but the epoch is
\* not added to the new time base.
process_time_high_NoEpoch(self, word) ==
    LET time_val == time_get_value(word)
        new_time_base == (time_val * 4096) + (self.n_time_high_loops * TIME_LOOP)
        loop == /\ self.time_base > new_time_base
                /\ (self.time_base - new_time_base) >= (MAX_TIMESTAMP_BASE - LOOP_THRESHOLD)
    IN  [self EXCEPT !.time_base = new_time_base,
                     !.current_time = new_time_base,
                     !.n_time_high_loops = IF loop THEN @ + 1 ELSE @]

\* Mutant of process_time_high: the loop test compares with
\* MAX_TIMESTAMP_BASE + LOOP_THRESHOLD.
process_time_high_WrongThreshold(self, word) ==
    LET time_val == time_get_value(word)
        new_time_base == (time_val * 4096) + (self.n_time_high_loops * TIME_LOOP)
        loop == /\ self.time_base > new_time_base
                /\ (self.time_base - new_time_base) >= (MAX_TIMESTAMP_BASE + LOOP_THRESHOLD)
        tb == IF loop THEN new_time_base + TIME_LOOP ELSE new_time_base
    IN  [self EXCEPT !.time_base = tb,
                     !.current_time = tb,
                     !.n_time_high_loops = IF loop THEN @ + 1 ELSE @]

\* Mutant of process_time_high: current_time keeps the low part in force
\* (time_base + time_low) instead of restarting at time_base.
process_time_high_KeepsLowPart(self, word) ==
    LET time_val == time_get_value(word)
        new_time_base == (time_val * 4096) + (self.n_time_high_loops * TIME_LOOP)
        loop == /\ self.time_base > new_time_base
                /\ (self.time_base - new_time_base) >= (MAX_TIMESTAMP_BASE - LOOP_THRESHOLD)
        tb == IF loop THEN new_time_base + TIME_LOOP ELSE new_time_base
    IN  [self EXCEPT !.time_base = tb,
                     !.current_time = tb + self.time_low,
                     !.n_time_high_loops = IF loop THEN @ + 1 ELSE @]

\* Mutant of process_time_high: the loop test is strict, a step back of
\* exactly MAX_TIMESTAMP_BASE - LOOP_THRESHOLD is not a loop.
process_time_high_StrictThreshold(self, word) ==
    LET time_val == time_get_value(word)
        new_time_base == (time_val * 4096) + (self.n_time_high_loops * TIME_LOOP)
        loop == /\ self.time_base > new_time_base
                /\ (self.time_base - new_time_base) > (MAX_TIMESTAMP_BASE - LOOP_THRESHOLD)
        tb == IF loop THEN new_time_base + TIME_LOOP ELSE new_time_base
    IN  [self EXCEPT !.time_base = tb,
                     !.current_time = tb,
                     !.n_time_high_loops = IF loop THEN @ + 1 ELSE @]

\* Mutant of process_time_high: a detected loop advances the time base by
\* MAX_TIMESTAMP_BASE, not by TIME_LOOP.
process_time_high_ShortEpoch(self, word) ==
    LET time_val == time_get_value(word)
        new_time_base == (time_val * 4096) + (self.n_time_high_loops * TIME_LOOP)
        loop == /\ self.time_base > new_time_base
                /\ (self.time_base - new_time_base) >= (MAX_TIMESTAMP_BASE - LOOP_THRESHOLD)
        tb == IF loop THEN new_time_base + MAX_TIMESTAMP_BASE ELSE new_time_base
    IN  [self EXCEPT !.time_base = tb,
                     !.current_time = tb,
                     !.n_time_high_loops = IF loop THEN @ + 1 ELSE @]

\* Mutant of process_time_high: a TIME_HIGH that is not a loop clears the
\* loop counter.
process_time_high_ForgetsLoops(self, word) ==
    LET time_val == time_get_value(word)
        new_time_base == (time_val * 4096) + (self.n_time_high_loops * TIME_LOOP)
        loop == /\ self.time_base > new_time_base
                /\ (self.time_base - new_time_base) >= (MAX_TIMESTAMP_BASE - LOOP_THRESHOLD)
        tb == IF loop THEN new_time_base + TIME_LOOP ELSE new_time_base
    IN  [self EXCEPT !.time_base = tb,
                     !.current_time = tb,
                     !.n_time_high_loops = IF loop THEN @ + 1 ELSE 0]

\* process_time_high(&mut self, word)
process_time_high(self, word) ==
    LET time_val == time_get_value(word)
        new_time_base == (time_val * 4096) + (self.n_time_high_loops * TIME_LOOP)
        loop == /\ self.time_base > new_time_base
                /\ (self.time_base - new_time_base) >= (MAX_TIMESTAMP_BASE - LOOP_THRESHOLD)
        tb == IF loop THEN new_time_base + TIME_LOOP ELSE new_time_base
    IN  [self EXCEPT !.time_base = tb,
                     !.current_time = tb,
                     !.n_time_high_loops = IF loop THEN @ + 1 ELSE @]

\* Mutant of VectorPushes: the mask is walked from the highest x down, so
\* the events of one vector word come out in decreasing x.
RECURSIVE VectorPushes_Descending(_, _, _, _)
VectorPushes_Descending(self, valid, x, end_x) ==
    IF x >= end_x THEN <<>>
    ELSE VectorPushes_Descending(self, valid \div 2, x + 1, end_x)
         \o (IF valid % 2 # 0
             THEN <<CdEvent_new(x, self.current_y, self.current_polarity, self.current_time)>>
             ELSE <<>>)

\* The events one vector word pushes: for x in current_base_x..end_x, in
\* increasing x, one event for each set bit of valid (valid >>= 1 per x).
RECURSIVE VectorPushes(_, _, _, _)
VectorPushes(self, valid, x, end_x) ==
    IF x >= end_x THEN <<>>
    ELSE (IF valid % 2 # 0
          THEN <<CdEvent_new(x, self.current_y, self.current_polarity, self.current_time)>>
          ELSE <<>>)
         \o VectorPushes(self, valid \div 2, x + 1, end_x)

\* process_vector_events(&mut self, valid, count, cd_events).  The u16 sum
\* current_base_x + count either panics (overflow checks on: nothing has been
\* pushed or assigned yet) or wraps modulo 2^16 (checks off: the range
\* current_base_x..end_x is then empty).
process_vector_events(self, valid, count, cd, checked) ==
    LET sum == self.current_base_x + count
        end_x == sum % U16
    IN  IF sum >= U16 /\ checked
        THEN [self |-> self, cd_events |-> cd, panicked |-> TRUE]
        ELSE [self |-> [self EXCEPT !.current_base_x = end_x],
              cd_events |-> cd \o VectorPushes(self, valid, self.current_base_x, end_x),
              panicked |-> FALSE]

\* Mutant of AddrXArm: x is clamped to the sensor width of metadata.
AddrXArm_ClampsToWidth(self, word) ==
    CdEvent_new(IF addr_x_get_x(word) < self.metadata.width
                THEN addr_x_get_x(word) ELSE self.metadata.width - 1,
                self.current_y, addr_x_get_polarity(word), self.current_time)

\* Mutant of AddrXArm: the event is stamped with time_base, not current_time.
AddrXArm_StampsTimeBase(self, word) ==
    CdEvent_new(addr_x_get_x(word), self.current_y,
                addr_x_get_polarity(word), self.time_base)

\* Mutant of AddrXArm: the event takes the polarity of the vector cursor
\* (current_polarity) instead of bit 11 of the word.
AddrXArm_CursorPolarity(self, word) ==
    CdEvent_new(addr_x_get_x(word), self.current_y,
                self.current_polarity, self.current_time)

\* The arms of the match in decode_buffer that do not call a method.
\* AddrX: the event pushed to cd_events.
AddrXArm(self, word) ==
    CdEvent_new(addr_x_get_x(word), self.current_y,
                addr_x_get_polarity(word), self.current_time)

AddrYArm(self, word) ==
    [self EXCEPT !.current_y = addr_y_get_y(word)]

\* Mutant of VectBaseXArm: the polarity of the word is not stored.
VectBaseXArm_KeepsPolarity(self, word) ==
    [self EXCEPT !.current_base_x = vect_base_x_get_x(word)]

VectBaseXArm(self, word) ==
    [self EXCEPT !.current_base_x = vect_base_x_get_x(word),
                 !.current_polarity = vect_base_x_get_polarity(word)]

\* Mutant of TimeLowArm: the low part is added to current_time, not to
\* time_base.
TimeLowArm_AddsToCurrentTime(self, word) ==
    [self EXCEPT !.time_low = time_get_value(word),
                 !.current_time = self.current_time + time_get_value(word)]

\* Mutant of TimeLowArm: the whole word, tag bits included, is taken as
\* the low part.
TimeLowArm_StoresWholeWord(self, word) ==
    [self EXCEPT !.time_low = word,
                 !.current_time = self.time_base + word]

TimeLowArm(self, word) ==
    [self EXCEPT !.time_low = time_get_value(word),
                 !.current_time = self.time_base + time_get_value(word)]

\* Mutant of ExtTriggerArm: the two u8 arguments of TriggerEvent::new are
\* passed in the other order.
ExtTriggerArm_SwapsValueAndId(self, word) ==
    TriggerEvent_new(ext_trigger_get_id(word), ext_trigger_get_value(word),
                     self.current_time)

\* ExtTrigger: the event pushed to trigger_events.
ExtTriggerArm(self, word) ==
    TriggerEvent_new(ext_trigger_get_value(word), ext_trigger_get_id(word),
                     self.current_time)

\* One iteration of the main loop of decode_buffer ("Process remaining
\* events"): the match on RawEventType::from_u8(event_type).
\* r = [self, cd_events, trigger_events, panicked].
ProcessWord(r, word, checked) ==
    LET self == r.self
        ty == RawEventType_from_u8(get_event_type(word))
    IN  CASE ty = "AddrX" ->
               [r EXCEPT !.cd_events = Append(@, AddrXArm(self, word))]
          [] ty = "Vect12" ->
               LET v == process_vector_events(self, vect_12_get_valid(word), 12,
                                              r.cd_events, checked)
               IN  [r EXCEPT !.self = v.self, !.cd_events = v.cd_events,
                             !.panicked = v.panicked]
          [] ty = "Vect8" ->
               LET v == process_vector_events(self, vect_8_get_valid(word), 8,
                                              r.cd_events, checked)
               IN  [r EXCEPT !.self = v.self, !.cd_events = v.cd_events,
                             !.panicked = v.panicked]
          [] ty = "AddrY" ->
               [r EXCEPT !.self = AddrYArm(self, word)]
          [] ty = "VectBaseX" ->
               [r EXCEPT !.self = VectBaseXArm(self, word)]
          [] ty = "TimeHigh" ->
               [r EXCEPT !.self = process_time_high(self, word)]
          [] ty = "TimeLow" ->
               [r EXCEPT !.self = TimeLowArm(self, word)]
          [] ty = "ExtTrigger" ->
               [r EXCEPT !.trigger_events = Append(@, ExtTriggerArm(self, word))]
          [] OTHER -> r

\* Mutant of SkipToTimeHigh: a pre-roll ADDR_Y word is not discarded, it
\* sets current_y.
RECURSIVE SkipToTimeHigh_KeepsAddrY(_, _, _)
SkipToTimeHigh_KeepsAddrY(self, words, i) ==
    IF i > Len(words) THEN [self |-> self, next |-> i]
    ELSE IF get_event_type(words[i]) = TimeHighTag
         THEN [self |-> [self EXCEPT !.time_base = time_get_value(words[i]) * 4096,
                                     !.current_time = time_get_value(words[i]) * 4096,
                                     !.first_time_base_set = TRUE],
               next |-> i + 1]
         ELSE SkipToTimeHigh_KeepsAddrY(
                  IF get_event_type(words[i]) = 0
                  THEN [self EXCEPT !.current_y = addr_y_get_y(words[i])]
                  ELSE self,
                  words, i + 1)

\* Mutant of SkipToTimeHigh: the first TIME_HIGH sets the clock but not
\* first_time_base_set.
RECURSIVE SkipToTimeHigh_NotArmed(_, _, _)
SkipToTimeHigh_NotArmed(self, words, i) ==
    IF i > Len(words) THEN [self |-> self, next |-> i]
    ELSE IF get_event_type(words[i]) = TimeHighTag
         THEN [self |-> [self EXCEPT !.time_base = time_get_value(words[i]) * 4096,
                                     !.current_time = time_get_value(words[i]) * 4096],
               next |-> i + 1]
         ELSE SkipToTimeHigh_NotArmed(self, words, i + 1)

\* Mutant of SkipToTimeHigh: a pre-roll VECT_BASE_X word is not discarded,
\* it sets current_base_x and current_polarity.
RECURSIVE SkipToTimeHigh_KeepsBaseX(_, _, _)
SkipToTimeHigh_KeepsBaseX(self, words, i) ==
    IF i > Len(words) THEN [self |-> self, next |-> i]
    ELSE IF get_event_type(words[i]) = TimeHighTag
         THEN [self |-> [self EXCEPT !.time_base = time_get_value(words[i]) * 4096,
                                     !.current_time = time_get_value(words[i]) * 4096,
                                     !.first_time_base_set = TRUE],
               next |-> i + 1]
         ELSE SkipToTimeHigh_KeepsBaseX(
                  IF get_event_type(words[i]) = 3
                  THEN [self EXCEPT !.current_base_x = vect_base_x_get_x(words[i]),
                                    !.current_polarity = vect_base_x_get_polarity(words[i])]
                  ELSE self,
                  words, i + 1)

\* Mutant of SkipToTimeHigh: the first TIME_HIGH value is stored without
\* the shift by 12.
RECURSIVE SkipToTimeHigh_NoShift(_, _, _)
SkipToTimeHigh_NoShift(self, words, i) ==
    IF i > Len(words) THEN [self |-> self, next |-> i]
    ELSE IF get_event_type(words[i]) = TimeHighTag
         THEN [self |-> [self EXCEPT !.time_base = time_get_value(words[i]),
                                     !.current_time = time_get_value(words[i]),
                                     !.first_time_base_set = TRUE],
               next |-> i + 1]
         ELSE SkipToTimeHigh_NoShift(self, words, i + 1)

\* The pre-roll loop of decode_buffer ("Skip until first TIME_HIGH"): consumes
\* words[i..] up to and including the first TIME_HIGH, which arms the decoder.
\* Returns the decoder and the index of the first word left in the iterator.
RECURSIVE SkipToTimeHigh(_, _, _)
SkipToTimeHigh(self, words, i) ==
    IF i > Len(words) THEN [self |-> self, next |-> i]
    ELSE IF get_event_type(words[i]) = TimeHighTag
         THEN [self |-> [self EXCEPT !.time_base = time_get_value(words[i]) * 4096,
                                     !.current_time = time_get_value(words[i]) * 4096,
                                     !.first_time_base_set = TRUE],
               next |-> i + 1]
         ELSE SkipToTimeHigh(self, words, i + 1)

\* The main loop of decode_buffer over words[i..]; a panic ends the call.
RECURSIVE ProcessRemaining(_, _, _, _)
ProcessRemaining(r, words, i, checked) ==
    IF i > Len(words) \/ r.panicked THEN r
    ELSE ProcessRemaining(ProcessWord(r, words[i], checked), words, i + 1, checked)

\* Mutant of decode_buffer: no pre-roll, every word goes to the main loop.
decode_buffer_NoPreRoll(self, words, cd, trig, checked) ==
    ProcessRemaining([self |-> self, cd_events |-> cd,
                      trigger_events |-> trig, panicked |-> FALSE],
                     words, 1, checked)

\* Mutant of decode_buffer: every call starts by clearing the cursor fields.
decode_buffer_ClearsCursor(self, words, cd, trig, checked) ==
    LET cleared == [self EXCEPT !.current_y = 0, !.current_base_x = 0,
                                !.current_polarity = 0]
        pre == IF ~self.first_time_base_set
               THEN SkipToTimeHigh(cleared, words, 1)
               ELSE [self |-> cleared, next |-> 1]
    IN  ProcessRemaining([self |-> pre.self, cd_events |-> cd,
                          trigger_events |-> trig, panicked |-> FALSE],
                         words, pre.next, checked)

\* decode_buffer(&mut self, words, cd_events, trigger_events)
decode_buffer(self, words, cd, trig, checked) ==
    LET pre == IF ~self.first_time_base_set
               THEN SkipToTimeHigh(self, words, 1)
               ELSE [self |-> self, next |-> 1]
    IN  ProcessRemaining([self |-> pre.self, cd_events |-> cd,
                          trigger_events |-> trig, panicked |-> FALSE],
                         words, pre.next, checked)

(***************************************************************************)
(* Text of the file header.  A str is modelled by the sequence of its      *)
(* bytes; indices are 1-based, 0 stands for None.                          *)
(***************************************************************************)
Take(s, n) == SubSeq(s, 1, n)           \* &s[..n]
Drop(s, n) == SubSeq(s, n + 1, Len(s))  \* &s[n..]

\* str::starts_with / the test of str::strip_prefix
starts_with(s, prefix) == Len(s) >= Len(prefix) /\ Take(s, Len(prefix)) = prefix

\* str::find(ch) for an ASCII ch: the index of its first occurrence.
RECURSIVE FindFrom(_, _, _)
FindFrom(s, ch, i) ==
    IF i > Len(s) THEN 0
    ELSE IF s[i] = ch THEN i ELSE FindFrom(s, ch, i + 1)

find(s, ch) == FindFrom(s, ch, 1)

\* str::split(ch), collected: the parts between the occurrences of ch.
RECURSIVE split(_, _)
split(s, ch) ==
    LET i == find(s, ch)
    IN  IF i = 0 THEN <<s>> ELSE <<Take(s, i - 1)>> \o split(Drop(s, i), ch)

\* str::trim_end: the ASCII members of White_Space (tab, LF, VT, FF, CR,
\* space); the lines of the model end in no other white space.
RECURSIVE trim_end(_)
trim_end(s) ==
    IF s # <<>> /\ s[Len(s)] \in {9, 10, 11, 12, 13, 32}
    THEN trim_end(Take(s, Len(s) - 1))
    ELSE s

\* Whether bytes is well-formed UTF-8 (String::from_utf8 inside read_line).
RECURSIVE IsUtf8(_)
IsUtf8(bytes) ==
    LET Cont(i) == Len(bytes) >= i /\ bytes[i] \in 128..191
        b == bytes[1]
    IN  IF bytes = <<>> THEN TRUE
        ELSE IF b < 128 THEN IsUtf8(Drop(bytes, 1))
        ELSE IF b \in 194..223 THEN Cont(2) /\ IsUtf8(Drop(bytes, 2))
        ELSE IF b \in 224..239
             THEN /\ Cont(2) /\ Cont(3)
                  /\ b = 224 => bytes[2] >= 160
                  /\ b = 237 => bytes[2] <= 159
                  /\ IsUtf8(Drop(bytes, 3))
        ELSE IF b \in 240..244
             THEN /\ Cont(2) /\ Cont(3) /\ Cont(4)
                  /\ b = 240 => bytes[2] >= 144
                  /\ b = 244 => bytes[2] <= 143
                  /\ IsUtf8(Drop(bytes, 4))
        ELSE FALSE

RECURSIVE StripZeros(_)
StripZeros(digits) ==
    IF Len(digits) > 1 /\ digits[1] = 48 THEN StripZeros(Drop(digits, 1)) ELSE digits

RECURSIVE DigitsValue(_)
DigitsValue(digits) ==
    IF digits = <<>> THEN 0
    ELSE DigitsValue(Take(digits, Len(digits) - 1)) * 10 + (digits[Len(digits)] - 48)

\* a > b for digit strings of equal length.
RECURSIVE DigitsGreater(_, _)
DigitsGreater(a, b) ==
    IF a = <<>> THEN FALSE
    ELSE IF a[1] # b[1] THEN a[1] > b[1]
    ELSE DigitsGreater(Drop(a, 1), Drop(b, 1))

\* The digits of u32::MAX, 4294967295.
U32_MAX_DIGITS == <<52, 50, 57, 52, 57, 54, 55, 50, 57, 53>>

\* str::parse::<u32>(): an optional '+', then one or more decimal digits
\* whose value fits u32; nothing else (no '-', no white space).
parse_u32(s) ==
    LET digits == IF s # <<>> /\ s[1] = 43 THEN Drop(s, 1) ELSE s
        sig == StripZeros(digits)
    IN  IF digits = <<>> \/ \E i \in 1..Len(digits) : digits[i] \notin 48..57
        THEN [ok |-> FALSE, value |-> 0]
        ELSE IF Len(sig) > 10 \/ (Len(sig) = 10 /\ DigitsGreater(sig, U32_MAX_DIGITS))
        THEN [ok |-> FALSE, value |-> 0]
        ELSE [ok |-> TRUE, value |-> DigitsValue(sig)]

PREFIX_FORMAT   == <<37, 32, 102, 111, 114, 109, 97, 116, 32>>            \* "% format "
PREFIX_GEOMETRY == <<37, 32, 103, 101, 111, 109, 101, 116, 114, 121, 32>> \* "% geometry "
PREFIX_END      == <<37, 32, 101, 110, 100>>                              \* "% end"
NAME_WIDTH      == <<119, 105, 100, 116, 104>>                            \* "width"
NAME_HEIGHT     == <<104, 101, 105, 103, 104, 116>>                       \* "height"

\* Mutant of FormatPart: the value of the key "height" is stored in width.
FormatPart_HeightSetsWidth(self, part) ==
    LET idx == find(part, 61)
        name == Take(part, idx - 1)
        value == parse_u32(Drop(part, idx))
    IN  IF idx = 0 THEN self
        ELSE IF name = NAME_WIDTH /\ value.ok
             THEN [self EXCEPT !.metadata.width = value.value]
        ELSE IF name = NAME_HEIGHT /\ value.ok
             THEN [self EXCEPT !.metadata.width = value.value]
        ELSE self

\* The body of `for part in format_str.split(';')` of parse_header_line.
FormatPart(self, part) ==
    LET idx == find(part, 61)                      \* part.find('=')
        name == Take(part, idx - 1)
        value == parse_u32(Drop(part, idx))
    IN  IF idx = 0 THEN self
        ELSE IF name = NAME_WIDTH /\ value.ok
             THEN [self EXCEPT !.metadata.width = value.value]
        ELSE IF name = NAME_HEIGHT /\ value.ok
             THEN [self EXCEPT !.metadata.height = value.value]
        ELSE self

RECURSIVE FormatParts(_, _, _)
FormatParts(self, parts, i) ==
    IF i > Len(parts) THEN self
    ELSE FormatParts(FormatPart(self, parts[i]), parts, i + 1)

\* Mutant of GeometryLine: each dimension that parses is stored, whether or
\* not the other one parses.
GeometryLine_EachDimension(self, geometry_str) ==
    LET idx == find(geometry_str, 120)
        w == parse_u32(Take(geometry_str, idx - 1))
        h == parse_u32(Drop(geometry_str, idx))
        withWidth == IF idx # 0 /\ w.ok
                     THEN [self EXCEPT !.metadata.width = w.value] ELSE self
    IN  IF idx # 0 /\ h.ok
        THEN [withWidth EXCEPT !.metadata.height = h.value]
        ELSE withWidth

\* The `% geometry ` branch of parse_header_line.
GeometryLine(self, geometry_str) ==
    LET idx == find(geometry_str, 120)             \* geometry_str.find('x')
        w == parse_u32(Take(geometry_str, idx - 1))
        h == parse_u32(Drop(geometry_str, idx))
    IN  IF idx # 0 /\ w.ok /\ h.ok
        THEN [self EXCEPT !.metadata = [width |-> w.value, height |-> h.value]]
        ELSE self

\* parse_header_line(&mut self, line): a `% evt ` line and every other line
\* change nothing.
parse_header_line(self, line) ==
    LET trimmed == trim_end(line)
    IN  IF starts_with(trimmed, PREFIX_FORMAT)
        THEN FormatParts(self, split(Drop(trimmed, Len(PREFIX_FORMAT)), 59), 1)
        ELSE IF starts_with(trimmed, PREFIX_GEOMETRY)
        THEN GeometryLine(self, Drop(trimmed, Len(PREFIX_GEOMETRY)))
        ELSE self

(***************************************************************************)
(* Input words: a 4-bit tag and a 12-bit payload, hex form beside each.    *)
(***************************************************************************)
Word(tag, payload) == tag * 4096 + payload

W_TIME_HIGH_000 == Word(8, 0)          \* 0x8000
W_TIME_HIGH_005 == Word(8, 5)          \* 0x8005
W_TIME_HIGH_00A == Word(8, 10)         \* 0x800A: 4085 below 0xFFF
W_TIME_HIGH_00B == Word(8, 11)         \* 0x800B: 4084 below 0xFFF
W_TIME_HIGH_FFF == Word(8, 4095)       \* 0x8FFF
W_TIME_LOW_100  == Word(6, 100)        \* 0x6064
W_TIME_LOW_050  == Word(6, 50)         \* 0x6032
W_TIME_LOW_FFF  == Word(6, 4095)       \* 0x6FFF
W_ADDR_Y_50     == Word(0, 2048 + 50)  \* 0x0832: y = 50, system-type bit set
W_ADDR_X_100    == Word(2, 2048 + 100) \* 0x2864: x = 100, polarity 1
W_ADDR_X_25     == Word(2, 2048 + 37)  \* 0x2825: x = 37, polarity 1; low byte '%'
W_BASE_X_3      == Word(3, 2048 + 3)   \* 0x3803: x = 3, polarity 1
W_BASE_X_2047   == Word(3, 2047)       \* 0x37FF: x = 2047, polarity 0
W_VECT_12_E38   == Word(4, 3640)       \* 0x4E38: mask 111000111000
W_VECT_12_000   == Word(4, 0)          \* 0x4000: mask 0
W_VECT_12_FFF   == Word(4, 4095)       \* 0x4FFF: mask all ones
W_VECT_8_F05    == Word(5, 3840 + 5)   \* 0x5F05: mask 00000101, bits 11:8 set
W_VECT_8_005    == Word(5, 5)          \* 0x5005: 0x5F05 with bits 11:8 clear
W_TRIGGER_2FF   == Word(10, 767)       \* 0xA2FF: id 2, value 1, bits 7:1 set
W_TRIGGER_FFE   == Word(10, 4094)      \* 0xAFFE: id 15, value 0, bits 7:1 set
W_RESERVED_1    == Word(1, 2748)       \* 0x1ABC
W_RESERVED_9    == Word(9, 0)          \* 0x9000
W_RESERVED_B    == Word(11, 4095)      \* 0xBFFF
W_RESERVED_C    == Word(12, 2048)      \* 0xC800
W_RESERVED_D    == Word(13, 100)       \* 0xD064
W_CONTINUED_4   == Word(7, 1)          \* 0x7001
W_OTHERS        == Word(14, 0)         \* 0xE000
W_CONTINUED_12  == Word(15, 2748)      \* 0xFABC

\* The words of the stream specification.
StreamWords ==
    {W_TIME_HIGH_000, W_TIME_HIGH_005, W_TIME_HIGH_FFF, W_TIME_LOW_100,
     W_ADDR_Y_50, W_ADDR_X_100, W_VECT_12_E38, W_TRIGGER_2FF}

\* The words of the per-word specification.
StepWords ==
    {W_TIME_HIGH_000, W_TIME_HIGH_005, W_TIME_HIGH_00A, W_TIME_HIGH_00B,
     W_TIME_HIGH_FFF, W_TIME_LOW_100, W_TIME_LOW_050, W_TIME_LOW_FFF,
     W_ADDR_Y_50, W_ADDR_X_100, W_BASE_X_3, W_BASE_X_2047,
     W_VECT_12_E38, W_VECT_12_000, W_VECT_12_FFF, W_VECT_8_F05, W_VECT_8_005,
     W_TRIGGER_2FF, W_TRIGGER_FFE, W_RESERVED_1, W_RESERVED_9, W_RESERVED_B,
     W_RESERVED_C, W_RESERVED_D, W_CONTINUED_4, W_OTHERS, W_CONTINUED_12}

\* Word slices of at most n words over S.
Slices(S, n) == UNION {[1..k -> S] : k \in 0..n}

\* Sensor geometries a caller assigns to the public metadata field.
Geometries == {[width |-> 640, height |-> 480], [width |-> 64, height |-> 32]}

(***************************************************************************)
(* History                                                                 *)
(***************************************************************************)
\* The value of the latest TIME_HIGH word of words, prev if there is none.
RECURSIVE LatestTimeHigh(_, _)
LatestTimeHigh(prev, words) ==
    IF words = <<>> THEN prev
    ELSE LET w == words[Len(words)]
         IN  IF get_event_type(w) = TimeHighTag THEN time_get_value(w)
             ELSE LatestTimeHigh(prev, SubSeq(words, 1, Len(words) - 1))

\* A call: the operation, its word, and what it started from: the decoder,
\* the two sinks, their lengths and the latest TIME_HIGH value.
NoCall ==
    [op |-> "none", word |-> 0, self |-> Evt3Decoder_new,
     cd_events |-> <<>>, trigger_events |-> <<>>,
     n_cd |-> 0, n_trig |-> 0, th |-> -1]

Call(op, word) ==
    [op |-> op, word |-> word, self |-> decoder,
     cd_events |-> cd_events, trigger_events |-> trigger_events,
     n_cd |-> Len(cd_events), n_trig |-> Len(trigger_events),
     th |-> last_time_high]

\* decode_file has not been called.
NoResult == [kind |-> "none"]

NoFile ==
    /\ file = <<>>
    /\ pos = 0
    /\ pc = "idle"
    /\ result = NoResult
    /\ data_start = 0
    /\ io_error = "None"

\* A decoder created by new() with two empty sinks.
Fresh ==
    [self |-> Evt3Decoder_new, cd_events |-> <<>>, trigger_events |-> <<>>,
     panicked |-> FALSE]

\* A second instance, created by new(), with empty sinks; no call made on
\* either instance.
NoOther ==
    /\ other = Fresh
    /\ calls = <<>>

(***************************************************************************)
(* Spec: one decoder, created by new(), given word slices by decode_buffer *)
(* calls into the caller's two sinks, and reset between streams.  Within   *)
(* MaxWords words current_base_x stays far below 2^16, so the build        *)
(* profile makes no difference here: it is the one of `cargo test`.        *)
(***************************************************************************)
Init ==
    /\ decoder = Evt3Decoder_new
    /\ cd_events = <<>>
    /\ trigger_events = <<>>
    /\ overflow_checks = TRUE
    /\ panicked = FALSE
    /\ fed = <<>>
    /\ was_reset = FALSE
    /\ last_time_high = -1
    /\ last = NoCall
    /\ steps = 0
    /\ NoFile
    /\ NoOther

\* decoder.decode_buffer(&words, &mut cd_events, &mut trigger_events)
DecodeBuffer(words) ==
    /\ ~panicked
    /\ Len(fed) + Len(words) <= MaxWords
    /\ LET r == decode_buffer(decoder, words, cd_events, trigger_events, overflow_checks)
       IN  /\ decoder' = r.self
           /\ cd_events' = r.cd_events
           /\ trigger_events' = r.trigger_events
           /\ panicked' = r.panicked
    /\ fed' = fed \o words
    /\ last_time_high' = LatestTimeHigh(last_time_high, words)
    /\ UNCHANGED <<overflow_checks, was_reset, last, steps>>
    /\ UNCHANGED <<fileVars, twoVars>>

\* decoder.reset(), after which the caller decodes into new, empty sinks.
ResetAndNewSinks ==
    /\ ~panicked
    /\ decoder' = reset(decoder)
    /\ cd_events' = <<>>
    /\ trigger_events' = <<>>
    /\ fed' = <<>>
    /\ was_reset' = TRUE
    /\ last_time_high' = -1
    /\ UNCHANGED <<overflow_checks, panicked, last, steps>>
    /\ UNCHANGED <<fileVars, twoVars>>

Min(a, b) == IF a <= b THEN a ELSE b

Next ==
    \/ \E words \in Slices(StreamWords, Min(MaxChunk, MaxWords - Len(fed))) :
          DecodeBuffer(words)
    \/ ResetAndNewSinks

Spec == Init /\ [][Next]_vars

(***************************************************************************)
(* CursorSpec: the decoder of Spec, with the same two operations, on       *)
(* streams of the words that set and use the cursor: ADDR_Y and            *)
(* VECT_BASE_X, which may come before the first TIME_HIGH, and ADDR_X,     *)
(* VECT_12 and VECT_8.                                                     *)
(***************************************************************************)
CursorWords ==
    {W_ADDR_Y_50, W_BASE_X_3, W_TIME_HIGH_005, W_ADDR_X_100, W_VECT_12_E38,
     W_VECT_8_F05}

CursorNext ==
    \/ \E words \in Slices(CursorWords, Min(MaxChunk, MaxWords - Len(fed))) :
          DecodeBuffer(words)
    \/ ResetAndNewSinks

CursorSpec == Init /\ [][CursorNext]_vars

(***************************************************************************)
(* StepSpec: the decoder one call at a time, each decode_buffer call given *)
(* a single word, from start states that a decoder created by new()        *)
(* reaches on the preambles below.  No preamble word emits an event, so    *)
(* the sinks of a start state are empty.                                   *)
(***************************************************************************)
\* The longest run of VECT_12 words after VECT_BASE_X 2047 that keeps
\* current_base_x + 12 within u16: it leaves current_base_x = 65527.
FarBurst == (U16 - 2048) \div 12

\* n successive calls decode_buffer(&[word], ..), by halving.
RECURSIVE RepeatCall(_, _, _, _)
RepeatCall(r, word, n, checked) ==
    IF n = 0 \/ r.panicked THEN r
    ELSE IF n = 1
         THEN decode_buffer(r.self, <<word>>, r.cd_events, r.trigger_events, checked)
         ELSE RepeatCall(RepeatCall(r, word, n \div 2, checked),
                         word, n - (n \div 2), checked)

\* A preamble: the words of a first call, then n calls of one word each.
Preambles ==
    { [words |-> <<>>, pad |-> W_VECT_12_000, n |-> 0],
      [words |-> <<W_TIME_HIGH_FFF, W_TIME_LOW_100, W_ADDR_Y_50, W_BASE_X_3>>,
       pad |-> W_VECT_12_000, n |-> 0],
      [words |-> <<W_TIME_HIGH_FFF, W_ADDR_Y_50, W_BASE_X_3, W_TIME_HIGH_000,
                   W_TIME_LOW_100>>,
       pad |-> W_VECT_12_000, n |-> 0],
      [words |-> <<W_TIME_HIGH_000, W_BASE_X_2047>>,
       pad |-> W_VECT_12_000, n |-> FarBurst] }

RunPreamble(p, checked) ==
    RepeatCall(decode_buffer(Evt3Decoder_new, p.words, <<>>, <<>>, checked),
               p.pad, p.n, checked)

StepInit ==
    /\ overflow_checks \in BOOLEAN
    /\ \E p \in Preambles :
          LET r == RunPreamble(p, overflow_checks)
          IN  /\ decoder = r.self
              /\ cd_events = r.cd_events
              /\ trigger_events = r.trigger_events
              /\ panicked = r.panicked
              /\ last_time_high = LatestTimeHigh(-1, p.words)
    /\ fed = <<>>
    /\ was_reset = FALSE
    /\ last = NoCall
    /\ steps = 0
    /\ NoFile
    /\ NoOther

\* decoder.decode_buffer(&[word], &mut cd_events, &mut trigger_events)
DecodeWord(word) ==
    /\ ~panicked
    /\ steps < MaxSteps
    /\ LET r == decode_buffer(decoder, <<word>>, cd_events, trigger_events, overflow_checks)
       IN  /\ decoder' = r.self
           /\ cd_events' = r.cd_events
           /\ trigger_events' = r.trigger_events
           /\ panicked' = r.panicked
    /\ last_time_high' = LatestTimeHigh(last_time_high, <<word>>)
    /\ last' = Call("decode_buffer", word)
    /\ steps' = steps + 1
    /\ UNCHANGED <<overflow_checks, fed, was_reset>>
    /\ UNCHANGED <<fileVars, twoVars>>

\* decoder.decode_buffer(&[], &mut cd_events, &mut trigger_events)
DecodeEmpty ==
    /\ ~panicked
    /\ steps < MaxSteps
    /\ LET r == decode_buffer(decoder, <<>>, cd_events, trigger_events, overflow_checks)
       IN  /\ decoder' = r.self
           /\ cd_events' = r.cd_events
           /\ trigger_events' = r.trigger_events
           /\ panicked' = r.panicked
    /\ last_time_high' = LatestTimeHigh(last_time_high, <<>>)
    /\ last' = Call("decode_empty", 0)
    /\ steps' = steps + 1
    /\ UNCHANGED <<overflow_checks, fed, was_reset>>
    /\ UNCHANGED <<fileVars, twoVars>>

\* decoder.reset(): the sinks are the caller's and are not touched.
Reset ==
    /\ ~panicked
    /\ steps < MaxSteps
    /\ decoder' = reset(decoder)
    /\ was_reset' = TRUE
    /\ last_time_high' = -1
    /\ last' = Call("reset", 0)
    /\ steps' = steps + 1
    /\ UNCHANGED <<cd_events, trigger_events, overflow_checks, panicked, fed>>
    /\ UNCHANGED <<fileVars, twoVars>>

\* decoder.metadata.width = w; decoder.metadata.height = h (the field is pub).
SetMetadata(g) ==
    /\ ~panicked
    /\ steps < MaxSteps
    /\ decoder' = [decoder EXCEPT !.metadata = g]
    /\ last' = Call("set_metadata", 0)
    /\ steps' = steps + 1
    /\ UNCHANGED <<cd_events, trigger_events, overflow_checks, panicked, fed,
                   was_reset, last_time_high>>
    /\ UNCHANGED <<fileVars, twoVars>>

StepNext ==
    \/ \E word \in StepWords : DecodeWord(word)
    \/ DecodeEmpty
    \/ Reset
    \/ \E g \in Geometries : SetMetadata(g)

StepSpec == StepInit /\ [][StepNext]_vars

(***************************************************************************)
(* FileSpec: one decode_file call on a decoder that is new, armed by       *)
(* earlier words or left by an earlier decode_file call, reset before the  *)
(* call or not, for files made of a header text, whole words and at most   *)
(* one more byte.                                                          *)
(* Every reader.read(&mut buffer) returns as many bytes as the BufReader   *)
(* has left in its buffer after the header, or as File::read delivers:     *)
(* any count from 1 to what is left of the file (here at most MaxRead).    *)
(* The files are far too short for current_base_x to reach 2^16.           *)
(***************************************************************************)
MaxRead == 3
MaxPayloadWords == 2

\* buffer[..bytes_read].chunks_exact(2).map(u16::from_le_bytes).collect():
\* a last byte without a partner is left out.
RECURSIVE WordsLE(_)
WordsLE(bytes) ==
    IF Len(bytes) < 2 THEN <<>>
    ELSE <<bytes[1] + bytes[2] * 256>> \o WordsLE(Drop(bytes, 2))

\* Where read_line stops when it starts at byte i: at the first LF, which it
\* takes, or at the end of the file.
RECURSIVE LineEnd(_, _)
LineEnd(bytes, i) ==
    IF i >= Len(bytes) THEN Len(bytes)
    ELSE IF bytes[i] = 10 THEN i ELSE LineEnd(bytes, i + 1)

\* Mutant of HeaderIteration: the end of the file in the header is reported
\* as DecodeError::UnexpectedEof.
HeaderIteration_EofIsError(self, bytes, at) ==
    IF at >= Len(bytes)
    THEN [self |-> self, pos |-> at, done |-> TRUE, err |-> "UnexpectedEof"]
    ELSE IF bytes[at + 1] # 37
    THEN [self |-> self, pos |-> at, done |-> TRUE, err |-> "None"]
    ELSE LET end == LineEnd(bytes, at + 1)
             line == SubSeq(bytes, at + 1, end)
         IN  IF ~IsUtf8(line)
             THEN [self |-> self, pos |-> end, done |-> TRUE, err |-> "Io"]
             ELSE IF starts_with(line, PREFIX_END)
             THEN [self |-> self, pos |-> end, done |-> TRUE, err |-> "None"]
             ELSE [self |-> parse_header_line(self, line), pos |-> end,
                   done |-> FALSE, err |-> "None"]

\* Mutant of HeaderIteration: a line starting with "% end" is taken like any
\* other line and the loop goes on while the next byte is '%'.
HeaderIteration_EndDoesNotStop(self, bytes, at) ==
    IF at >= Len(bytes)
    THEN [self |-> self, pos |-> at, done |-> TRUE, err |-> "None"]
    ELSE IF bytes[at + 1] # 37
    THEN [self |-> self, pos |-> at, done |-> TRUE, err |-> "None"]
    ELSE LET end == LineEnd(bytes, at + 1)
             line == SubSeq(bytes, at + 1, end)
         IN  IF ~IsUtf8(line)
             THEN [self |-> self, pos |-> end, done |-> TRUE, err |-> "Io"]
             ELSE [self |-> parse_header_line(self, line), pos |-> end,
                   done |-> FALSE, err |-> "None"]

\* One iteration of the loop of parse_header with `at` bytes consumed, when
\* the operating system reports no error: fill_buf is empty at the end of
\* the file; a first byte other than '%' (37) is left unread; read_line
\* takes a line and fails with an io::Error (InvalidData) if it is not
\* UTF-8; a line starting with "% end" ends the loop.
HeaderIteration(self, bytes, at) ==
    IF at >= Len(bytes)
    THEN [self |-> self, pos |-> at, done |-> TRUE, err |-> "None"]
    ELSE IF bytes[at + 1] # 37
    THEN [self |-> self, pos |-> at, done |-> TRUE, err |-> "None"]
    ELSE LET end == LineEnd(bytes, at + 1)
             line == SubSeq(bytes, at + 1, end)
         IN  IF ~IsUtf8(line)
             THEN [self |-> self, pos |-> end, done |-> TRUE, err |-> "Io"]
             ELSE IF starts_with(line, PREFIX_END)
             THEN [self |-> self, pos |-> end, done |-> TRUE, err |-> "None"]
             ELSE [self |-> parse_header_line(self, line), pos |-> end,
                   done |-> FALSE, err |-> "None"]

\* The body of the read loop of decode_file when reader.read has returned
\* n bytes, the bytes at + 1 .. at + n of the file:
\* r = [self, cd_events, trigger_events, panicked].
ReadIteration(r, bytes, at, n, checked) ==
    decode_buffer(r.self, WordsLE(SubSeq(bytes, at + 1, at + n)),
                  r.cd_events, r.trigger_events, checked)

\* The read loop from byte `at` when the successive reads return the byte
\* counts of `counts`.
RECURSIVE ReadLoop(_, _, _, _, _)
ReadLoop(r, bytes, at, counts, checked) ==
    IF counts = <<>> THEN r
    ELSE ReadLoop(ReadIteration(r, bytes, at, counts[1], checked),
                  bytes, at + counts[1], Drop(counts, 1), checked)

\* parse_header(&mut self, reader) from `at` bytes on, when the operating
\* system reports no error: the loop of HeaderIteration.
RECURSIVE parse_header(_, _, _)
parse_header(self, bytes, at) ==
    LET h == HeaderIteration(self, bytes, at)
    IN  IF h.done THEN h ELSE parse_header(h.self, bytes, h.pos)

\* Ok(DecodeResult { cd_events, trigger_events, metadata })
OkResult(cd, trig, metadata) ==
    [kind |-> "Ok", cd_events |-> cd, trigger_events |-> trig, metadata |-> metadata]

\* Err(DecodeError::..)
ErrResult(error) == [kind |-> "Err", error |-> error]

\* decode_file(&mut self, path) as a whole, on a file of these bytes, when
\* the operating system reports no error and the successive reads return
\* the byte counts of `counts`: the decoder it leaves and the value it
\* returns.
decode_file(self, bytes, counts, checked) ==
    LET h == parse_header(self, bytes, 0)
        r == ReadLoop([self |-> h.self, cd_events |-> <<>>,
                       trigger_events |-> <<>>, panicked |-> FALSE],
                      bytes, h.pos, counts, checked)
    IN  IF h.err # "None"
        THEN [self |-> h.self, result |-> ErrResult(h.err)]
        ELSE [self |-> r.self,
              result |-> OkResult(r.cd_events, r.trigger_events, r.self.metadata)]

\* The bytes a recorder writes for a word sequence (u16::to_le_bytes).
RECURSIVE BytesLE(_)
BytesLE(words) ==
    IF words = <<>> THEN <<>>
    ELSE <<words[1] % 256, words[1] \div 256>> \o BytesLE(Drop(words, 1))

FileWords == {W_TIME_HIGH_005, W_ADDR_X_100, W_ADDR_X_25, W_TRIGGER_2FF}

\* Header texts: none; "% geometry 640x480\n% end\n" (25 bytes); "% evt 3.0"
\* with no line end; a '%' line that is not UTF-8; "% geometry 64x32\n" with
\* no "% end" line.
HeaderTexts ==
    { <<>>,
      <<37, 32, 103, 101, 111, 109, 101, 116, 114, 121, 32, 54, 52, 48, 120,
        52, 56, 48, 10, 37, 32, 101, 110, 100, 10>>,
      <<37, 32, 101, 118, 116, 32, 51, 46, 48>>,
      <<37, 255, 10>>,
      <<37, 32, 103, 101, 111, 109, 101, 116, 114, 121, 32, 54, 52, 120, 51,
        50, 10>> }

\* A last byte without a partner: the low byte of a word cut short.
OddTails == {<<>>, <<100>>}

Files ==
    { h \o BytesLE(ws) \o t :
        h \in HeaderTexts, ws \in Slices(FileWords, MaxPayloadWords), t \in OddTails }

\* The file of an earlier decode_file call: "% geometry 640x480\n% end\n",
\* then ADDR_X (x = 100, polarity 1) and TIME_HIGH 5.
FirstFile ==
    <<37, 32, 103, 101, 111, 109, 101, 116, 114, 121, 32, 54, 52, 48, 120,
      52, 56, 48, 10, 37, 32, 101, 110, 100, 10>>
        \o BytesLE(<<W_ADDR_X_100, W_TIME_HIGH_005>>)

\* decode_file on FirstFile by a decoder created by new(); the one read
\* returns the four bytes the BufReader has left after the header.
FirstCall == decode_file(Evt3Decoder_new, FirstFile, <<4>>, TRUE)

\* The decoder before the call: created by new(), armed by earlier words,
\* or as an earlier decode_file call left it.
FileStarts ==
    { Evt3Decoder_new,
      decode_buffer(Evt3Decoder_new,
                    <<W_TIME_HIGH_FFF, W_TIME_LOW_100, W_ADDR_Y_50, W_BASE_X_3>>,
                    <<>>, <<>>, TRUE).self,
      FirstCall.self }

FileInit ==
    /\ decoder \in FileStarts
    /\ cd_events = <<>>
    /\ trigger_events = <<>>
    /\ overflow_checks = TRUE
    /\ panicked = FALSE
    /\ fed = <<>>
    /\ was_reset = FALSE
    /\ last_time_high = IF decoder.first_time_base_set
                        THEN (decoder.time_base \div 4096) % 4096 ELSE -1
    /\ last = NoCall
    /\ steps = 0
    /\ NoFile
    /\ NoOther

\* decoder.reset() before the decode_file call, at most once (a second
\* reset changes nothing).
ResetBeforeFile ==
    /\ pc = "idle"
    /\ ~was_reset
    /\ decoder' = reset(decoder)
    /\ was_reset' = TRUE
    /\ last_time_high' = -1
    /\ last' = Call("reset", 0)
    /\ UNCHANGED <<cd_events, trigger_events, overflow_checks, panicked, fed,
                   steps>>
    /\ UNCHANGED <<fileVars, twoVars>>

\* Mutant of OpenFile: decode_file starts by resetting the decoder.
OpenFile_ResetsDecoder(f) ==
    /\ pc = "idle"
    /\ file' = f
    /\ pos' = 0
    /\ pc' = "header"
    /\ last' = Call("decode_file", 0)
    /\ decoder' = reset(decoder)
    /\ UNCHANGED <<cd_events, trigger_events, overflow_checks, panicked,
                   fed, was_reset, last_time_high, steps, result, data_start,
                   io_error, twoVars>>

\* decode_file(path): File::open succeeds on file f; BufReader::new.
OpenFile(f) ==
    /\ pc = "idle"
    /\ file' = f
    /\ pos' = 0
    /\ pc' = "header"
    /\ last' = Call("decode_file", 0)
    /\ UNCHANGED <<decoder, cd_events, trigger_events, overflow_checks, panicked,
                   fed, was_reset, last_time_high, steps, result, data_start,
                   io_error, twoVars>>

\* decode_file(path): File::open(path)? returns an error.
OpenFails ==
    /\ pc = "idle"
    /\ io_error' = "Os"
    /\ result' = ErrResult("Io")
    /\ pc' = "returned"
    /\ last' = Call("decode_file", 0)
    /\ UNCHANGED <<decoder, cd_events, trigger_events, overflow_checks, panicked,
                   fed, was_reset, last_time_high, steps, file, pos, data_start,
                   twoVars>>

\* One iteration of the loop of parse_header; when the loop ends,
\* decode_file creates its empty cd_events and trigger_events.
HeaderStep ==
    /\ pc = "header"
    /\ LET h == HeaderIteration(decoder, file, pos)
       IN  /\ decoder' = h.self
           /\ pos' = h.pos
           /\ IF h.err # "None"
              THEN /\ io_error' = "InvalidData"
                   /\ result' = ErrResult(h.err)
                   /\ pc' = "returned"
                   /\ UNCHANGED data_start
              ELSE /\ pc' = IF h.done THEN "data" ELSE "header"
                   /\ data_start' = IF h.done THEN h.pos ELSE data_start
                   /\ UNCHANGED <<io_error, result>>
    /\ cd_events' = <<>>
    /\ trigger_events' = <<>>
    /\ UNCHANGED <<overflow_checks, panicked, fed, was_reset, last_time_high,
                   last, steps, file, twoVars>>

\* fill_buf()? or read_line()? of parse_header returns an error of the
\* operating system.
HeaderReadFails ==
    /\ pc = "header"
    /\ io_error' = "Os"
    /\ result' = ErrResult("Io")
    /\ pc' = "returned"
    /\ UNCHANGED <<decoder, cd_events, trigger_events, overflow_checks, panicked,
                   fed, was_reset, last_time_high, last, steps, file, pos,
                   data_start, twoVars>>

\* One iteration of the read loop in which reader.read returns n bytes.
ReadChunk(n) ==
    /\ pc = "data"
    /\ ~panicked
    /\ n \in 1..Min(MaxRead, Len(file) - pos)
    /\ LET r == ReadIteration([self |-> decoder, cd_events |-> cd_events,
                               trigger_events |-> trigger_events,
                               panicked |-> FALSE],
                              file, pos, n, overflow_checks)
           words == WordsLE(SubSeq(file, pos + 1, pos + n))
       IN  /\ decoder' = r.self
           /\ cd_events' = r.cd_events
           /\ trigger_events' = r.trigger_events
           /\ panicked' = r.panicked
           /\ fed' = fed \o words
           /\ last_time_high' = LatestTimeHigh(last_time_high, words)
    /\ pos' = pos + n
    /\ UNCHANGED <<overflow_checks, was_reset, last, steps, file, pc, result,
                   data_start, io_error, twoVars>>

\* reader.read returns 0 at the end of the file: the loop ends and
\* decode_file returns Ok with its two vectors and a clone of metadata.
ReadEof ==
    /\ pc = "data"
    /\ ~panicked
    /\ pos = Len(file)
    /\ result' = OkResult(cd_events, trigger_events, decoder.metadata)
    /\ pc' = "returned"
    /\ UNCHANGED <<decoder, cd_events, trigger_events, overflow_checks, panicked,
                   fed, was_reset, last_time_high, last, steps, file, pos,
                   data_start, io_error, twoVars>>

\* Mutant of ReadFails: the read error ends the loop like the end of the
\* file, and the events decoded so far are returned.
ReadFails_ReturnsPartial ==
    /\ pc = "data"
    /\ ~panicked
    /\ io_error' = "Os"
    /\ result' = OkResult(cd_events, trigger_events, decoder.metadata)
    /\ pc' = "returned"
    /\ UNCHANGED <<decoder, cd_events, trigger_events, overflow_checks, panicked,
                   fed, was_reset, last_time_high, last, steps, file, pos,
                   data_start, twoVars>>

\* reader.read(&mut buffer)? returns an error: decode_file returns it; its
\* cd_events and trigger_events go out of scope (the variables keep what
\* they held).
ReadFails ==
    /\ pc = "data"
    /\ ~panicked
    /\ io_error' = "Os"
    /\ result' = ErrResult("Io")
    /\ pc' = "returned"
    /\ UNCHANGED <<decoder, cd_events, trigger_events, overflow_checks, panicked,
                   fed, was_reset, last_time_high, last, steps, file, pos,
                   data_start, twoVars>>

FileNext ==
    \/ ResetBeforeFile
    \/ \E f \in Files : OpenFile(f)
    \/ OpenFails
    \/ HeaderStep
    \/ HeaderReadFails
    \/ \E n \in 1..MaxRead : ReadChunk(n)
    \/ ReadEof
    \/ ReadFails

FileSpec == FileInit /\ [][FileNext]_vars

(***************************************************************************)
(* LineSpec: parse_header_line called with one line at a time, as          *)
(* parse_header calls it with what read_line returns (the line with its    *)
(* line end) and as the tests of decoder.rs call it (without), on a        *)
(* decoder that is new or that earlier calls have armed and given a        *)
(* geometry.  The variable file holds the line of the last call.           *)
(***************************************************************************)
MaxLines == 2

\* "% format EVT3;width=640;height=480"
L_FORMAT_640_480 ==
    <<37, 32, 102, 111, 114, 109, 97, 116, 32, 69, 86, 84, 51, 59, 119,
      105, 100, 116, 104, 61, 54, 52, 48, 59, 104, 101, 105, 103, 104,
      116, 61, 52, 56, 48>>

\* "% format EVT3;width=64;height=32\n"
L_FORMAT_64_32_LF ==
    <<37, 32, 102, 111, 114, 109, 97, 116, 32, 69, 86, 84, 51, 59, 119,
      105, 100, 116, 104, 61, 54, 52, 59, 104, 101, 105, 103, 104, 116,
      61, 51, 50, 10>>

\* "% format EVT3;height=7;width=+9"
L_FORMAT_HEIGHT_FIRST ==
    <<37, 32, 102, 111, 114, 109, 97, 116, 32, 69, 86, 84, 51, 59, 104,
      101, 105, 103, 104, 116, 61, 55, 59, 119, 105, 100, 116, 104, 61,
      43, 57>>

\* "% format EVT3;width=abc;height=32"
L_FORMAT_BAD_WIDTH ==
    <<37, 32, 102, 111, 114, 109, 97, 116, 32, 69, 86, 84, 51, 59, 119,
      105, 100, 116, 104, 61, 97, 98, 99, 59, 104, 101, 105, 103, 104,
      116, 61, 51, 50>>

\* "% format EVT3;width=64;height=-1"
L_FORMAT_BAD_HEIGHT ==
    <<37, 32, 102, 111, 114, 109, 97, 116, 32, 69, 86, 84, 51, 59, 119,
      105, 100, 116, 104, 61, 54, 52, 59, 104, 101, 105, 103, 104, 116,
      61, 45, 49>>

\* "% format EVT3;width=4294967296;height=32"
L_FORMAT_WIDE ==
    <<37, 32, 102, 111, 114, 109, 97, 116, 32, 69, 86, 84, 51, 59, 119,
      105, 100, 116, 104, 61, 52, 50, 57, 52, 57, 54, 55, 50, 57, 54,
      59, 104, 101, 105, 103, 104, 116, 61, 51, 50>>

\* "% format EVT3"
L_FORMAT_NO_KEYS ==
    <<37, 32, 102, 111, 114, 109, 97, 116, 32, 69, 86, 84, 51>>

\* "% geometry 320x240"
L_GEOMETRY_320_240 ==
    <<37, 32, 103, 101, 111, 109, 101, 116, 114, 121, 32, 51, 50, 48,
      120, 50, 52, 48>>

\* "% geometry 64x32\r\n"
L_GEOMETRY_64_32_CRLF ==
    <<37, 32, 103, 101, 111, 109, 101, 116, 114, 121, 32, 54, 52, 120,
      51, 50, 13, 10>>

\* "% geometry 320x"
L_GEOMETRY_NO_HEIGHT ==
    <<37, 32, 103, 101, 111, 109, 101, 116, 114, 121, 32, 51, 50, 48,
      120>>

\* "% geometry x240"
L_GEOMETRY_NO_WIDTH ==
    <<37, 32, 103, 101, 111, 109, 101, 116, 114, 121, 32, 120, 50, 52,
      48>>

\* "% geometry 320x24O"
L_GEOMETRY_BAD_HEIGHT ==
    <<37, 32, 103, 101, 111, 109, 101, 116, 114, 121, 32, 51, 50, 48,
      120, 50, 52, 79>>

\* "% geometry 320 240"
L_GEOMETRY_NO_X ==
    <<37, 32, 103, 101, 111, 109, 101, 116, 114, 121, 32, 51, 50, 48,
      32, 50, 52, 48>>

\* "% geometry 320x240x3"
L_GEOMETRY_TWO_X ==
    <<37, 32, 103, 101, 111, 109, 101, 116, 114, 121, 32, 51, 50, 48,
      120, 50, 52, 48, 120, 51>>

\* "% evt 3.0\n"
L_EVT_30 ==
    <<37, 32, 101, 118, 116, 32, 51, 46, 48, 10>>

\* "% evt 2.1"
L_EVT_21 ==
    <<37, 32, 101, 118, 116, 32, 50, 46, 49>>

\* "% date 2024-01-01\n"
L_DATE ==
    <<37, 32, 100, 97, 116, 101, 32, 50, 48, 50, 52, 45, 48, 49, 45, 48,
      49, 10>>

\* "%format EVT3;width=1;height=1"
L_FORMAT_NO_SPACE ==
    <<37, 102, 111, 114, 109, 97, 116, 32, 69, 86, 84, 51, 59, 119, 105,
      100, 116, 104, 61, 49, 59, 104, 101, 105, 103, 104, 116, 61, 49>>
HeaderLines ==
    {L_FORMAT_640_480, L_FORMAT_64_32_LF, L_FORMAT_HEIGHT_FIRST,
     L_FORMAT_BAD_WIDTH, L_FORMAT_BAD_HEIGHT, L_FORMAT_WIDE,
     L_FORMAT_NO_KEYS, L_GEOMETRY_320_240, L_GEOMETRY_64_32_CRLF,
     L_GEOMETRY_NO_HEIGHT, L_GEOMETRY_NO_WIDTH, L_GEOMETRY_BAD_HEIGHT,
     L_GEOMETRY_NO_X, L_GEOMETRY_TWO_X, L_EVT_30, L_EVT_21, L_DATE,
     L_FORMAT_NO_SPACE}

\* The decoder before the first line: created by new(), or armed, with its
\* cursor set and the geometry 800x600.
LineStarts ==
    { Evt3Decoder_new,
      [decode_buffer(Evt3Decoder_new,
                     <<W_TIME_HIGH_FFF, W_TIME_LOW_100, W_ADDR_Y_50, W_BASE_X_3>>,
                     <<>>, <<>>, TRUE).self
          EXCEPT !.metadata = [width |-> 800, height |-> 600]] }

LineInit ==
    /\ decoder \in LineStarts
    /\ cd_events = <<>>
    /\ trigger_events = <<>>
    /\ overflow_checks = TRUE
    /\ panicked = FALSE
    /\ fed = <<>>
    /\ was_reset = FALSE
    /\ last_time_high = IF decoder.first_time_base_set THEN 4095 ELSE -1
    /\ last = NoCall
    /\ steps = 0
    /\ NoFile
    /\ NoOther

\* decoder.parse_header_line(line)
ParseHeaderLine(line) ==
    /\ steps < MaxLines
    /\ decoder' = parse_header_line(decoder, line)
    /\ file' = line
    /\ last' = Call("parse_header_line", 0)
    /\ steps' = steps + 1
    /\ UNCHANGED <<cd_events, trigger_events, overflow_checks, panicked, fed,
                   was_reset, last_time_high, pos, pc, result, data_start,
                   io_error, twoVars>>

LineNext == \E line \in HeaderLines : ParseHeaderLine(line)

LineSpec == LineInit /\ [][LineNext]_vars

(***************************************************************************)
(* TwoSpec: two decoder instances, A (decoder, cd_events, trigger_events)  *)
(* and B (other), each created by new() and each with its own two sinks,   *)
(* under every interleaving of decode_buffer and reset calls.  A call      *)
(* takes &mut self and the sinks it is given; the crate has no static.     *)
(***************************************************************************)
MaxCalls == 4

TwoWords == {W_TIME_HIGH_005, W_ADDR_X_100, W_VECT_12_E38, W_TRIGGER_2FF}

\* a.decode_buffer(&words, &mut a_cd_events, &mut a_trigger_events)
DecodeBufferA(words) ==
    /\ Len(calls) < MaxCalls
    /\ ~panicked
    /\ LET r == decode_buffer(decoder, words, cd_events, trigger_events, overflow_checks)
       IN  /\ decoder' = r.self
           /\ cd_events' = r.cd_events
           /\ trigger_events' = r.trigger_events
           /\ panicked' = r.panicked
    /\ fed' = fed \o words
    /\ last_time_high' = LatestTimeHigh(last_time_high, words)
    /\ calls' = Append(calls, [who |-> "A", op |-> "decode_buffer", words |-> words])
    /\ UNCHANGED <<overflow_checks, was_reset, last, steps, fileVars, other>>

\* a.reset()
ResetA ==
    /\ Len(calls) < MaxCalls
    /\ ~panicked
    /\ decoder' = reset(decoder)
    /\ fed' = <<>>
    /\ was_reset' = TRUE
    /\ last_time_high' = -1
    /\ calls' = Append(calls, [who |-> "A", op |-> "reset", words |-> <<>>])
    /\ UNCHANGED <<cd_events, trigger_events, overflow_checks, panicked, last,
                   steps, fileVars, other>>

\* Mutant of DecodeBufferB: the clock is shared, B decodes with A's.
DecodeBufferB_SharedClock(words) ==
    /\ Len(calls) < MaxCalls
    /\ ~other.panicked
    /\ other' = decode_buffer([other.self EXCEPT
                                  !.time_base = decoder.time_base,
                                  !.current_time = decoder.current_time],
                              words, other.cd_events, other.trigger_events,
                              overflow_checks)
    /\ calls' = Append(calls, [who |-> "B", op |-> "decode_buffer", words |-> words])
    /\ UNCHANGED <<decoder, cd_events, trigger_events, overflow_checks, panicked,
                   fed, was_reset, last_time_high, last, steps, fileVars>>

\* b.decode_buffer(&words, &mut b_cd_events, &mut b_trigger_events)
DecodeBufferB(words) ==
    /\ Len(calls) < MaxCalls
    /\ ~other.panicked
    /\ other' = decode_buffer(other.self, words, other.cd_events,
                              other.trigger_events, overflow_checks)
    /\ calls' = Append(calls, [who |-> "B", op |-> "decode_buffer", words |-> words])
    /\ UNCHANGED <<decoder, cd_events, trigger_events, overflow_checks, panicked,
                   fed, was_reset, last_time_high, last, steps, fileVars>>

\* b.reset()
ResetB ==
    /\ Len(calls) < MaxCalls
    /\ ~other.panicked
    /\ other' = [other EXCEPT !.self = reset(other.self)]
    /\ calls' = Append(calls, [who |-> "B", op |-> "reset", words |-> <<>>])
    /\ UNCHANGED <<decoder, cd_events, trigger_events, overflow_checks, panicked,
                   fed, was_reset, last_time_high, last, steps, fileVars>>

TwoNext ==
    \/ \E words \in Slices(TwoWords, 1) : DecodeBufferA(words)
    \/ ResetA
    \/ \E words \in Slices(TwoWords, 1) : DecodeBufferB(words)
    \/ ResetB

TwoSpec == Init /\ [][TwoNext]_vars

(***************************************************************************)
(* Properties of the stream specification (Spec)                           *)
(***************************************************************************)
\* What a decoder created by new() makes of the whole of fed in one
\* decode_buffer call into empty sinks.
WholeBuffer == decode_buffer(Evt3Decoder_new, fed, <<>>, <<>>, overflow_checks)

HasTag(words, tag) == \E i \in 1..Len(words) : get_event_type(words[i]) = tag

NonDecreasing(events) ==
    \A i \in 1..(Len(events) - 1) : events[i].timestamp <= events[i + 1].timestamp

\* C1: buffer-chunking independence.  A decoder created by new() that has
\* been given the words of fed in any number of decode_buffer calls (of at
\* most MaxChunk words each) holds in its sinks exactly the CD and trigger
\* sequences that one decode_buffer call on the whole of fed produces, and
\* is in the same decoder state.
C1_ChunkingIndependence ==
    ~was_reset =>
        /\ cd_events = WholeBuffer.cd_events
        /\ trigger_events = WholeBuffer.trigger_events
        /\ decoder = WholeBuffer.self

\* C1 witness: more words than one call holds, the first of them in the
\* pre-roll, with CD and trigger events after the first TIME_HIGH.
C1_Witness ==
    /\ ~was_reset
    /\ Len(fed) > MaxChunk
    /\ get_event_type(fed[1]) # TimeHighTag
    /\ cd_events # <<>>
    /\ trigger_events # <<>>

\* C2 as stated: the timestamps of the CD events in the sink, in emission
\* order, are non-decreasing for every input (every event is emitted after
\* the first TIME_HIGH).
C2_TimestampsNonDecreasing == NonDecreasing(cd_events)

\* current_time after the first k words of fed.
ClockAfter(k) ==
    decode_buffer(Evt3Decoder_new, SubSeq(fed, 1, k), <<>>, <<>>,
                  overflow_checks).self.current_time

\* Some word of fed lowered current_time.
ClockRegressed == \E k \in 1..Len(fed) : ClockAfter(k) < ClockAfter(k - 1)

\* C2 amended: the timestamps of the CD events in the sink are
\* non-decreasing for every input none of whose words lowers current_time.
C2_NonDecreasingWhileClockDoesNotRegress ==
    ~ClockRegressed => NonDecreasing(cd_events)

\* C2 witness: CD events on both sides of a detected TIME_HIGH wrap, the
\* later with the larger timestamp.
C2_Witness ==
    /\ ~ClockRegressed
    /\ decoder.n_time_high_loops = 1
    /\ Len(cd_events) >= 2
    /\ cd_events[1].timestamp < cd_events[Len(cd_events)].timestamp

\* C4: as long as the words given since new/reset hold no TIME_HIGH, both
\* sinks are empty.
C4_NoTimeHighNoEvents ==
    ~HasTag(fed, TimeHighTag) => (cd_events = <<>> /\ trigger_events = <<>>)

\* C4 witness: an ADDR_X, a VECT_12 and an EXT_TRIGGER word have been given,
\* in more than one call, and no TIME_HIGH.
C4_Witness ==
    /\ ~HasTag(fed, TimeHighTag)
    /\ HasTag(fed, 2) /\ HasTag(fed, 4) /\ HasTag(fed, 10)
    /\ Len(fed) > MaxChunk

\* C8: reset and replay.  After reset, whatever the decoder was given
\* before, decoding into empty sinks produces exactly the CD and trigger
\* sequences a decoder created by new() produces for the same words.
C8_ResetAndReplay ==
    was_reset =>
        /\ cd_events = WholeBuffer.cd_events
        /\ trigger_events = WholeBuffer.trigger_events

\* C8 witness: after a reset, words with a pre-roll ADDR_X and events of
\* both kinds after the TIME_HIGH have been replayed.
C8_Witness ==
    /\ was_reset
    /\ Len(fed) >= 3
    /\ get_event_type(fed[1]) = 2
    /\ cd_events # <<>>
    /\ trigger_events # <<>>

IsPrefix(s, t) == Len(s) <= Len(t) /\ SubSeq(t, 1, Len(s)) = s

\* What a decoder created by new() emits for the first k words of fed.
OutputAfter(k) ==
    decode_buffer(Evt3Decoder_new, SubSeq(fed, 1, k), <<>>, <<>>, overflow_checks)

\* The CD events that word k of fed causes.
CdEventsOfWord(k) ==
    SubSeq(OutputAfter(k).cd_events, Len(OutputAfter(k - 1).cd_events) + 1,
           Len(OutputAfter(k).cd_events))

StrictlyIncreasingX(evs) ==
    \A i \in 1..(Len(evs) - 1) : evs[i].x < evs[i + 1].x

\* C11: decode_buffer only appends and keeps word order.  After every call
\* the sinks hold exactly the output for the words given so far and start
\* with the CD (resp. trigger) output for every prefix of those words: in
\* particular with what they held before the call, which is the output for
\* the words given before it, so that a call modifies, removes or reorders
\* no entry and the events stand in the order of the words that cause them.
\* The events of one vector word stand in strictly increasing x.
C11_AppendOnlyInWordOrder ==
    /\ cd_events = OutputAfter(Len(fed)).cd_events
    /\ trigger_events = OutputAfter(Len(fed)).trigger_events
    /\ \A k \in 0..Len(fed) :
          /\ IsPrefix(OutputAfter(k).cd_events, cd_events)
          /\ IsPrefix(OutputAfter(k).trigger_events, trigger_events)
    /\ \A k \in 1..Len(fed) : StrictlyIncreasingX(CdEventsOfWord(k))

\* C11 witness: TIME_HIGH, ADDR_X, VECT_12, EXT_TRIGGER given in more than
\* one call: the CD sink holds the event of the ADDR_X word, then the six
\* events of the VECT_12 word; the trigger sink holds one event.
C11_Witness ==
    /\ Len(fed) > MaxChunk
    /\ Len(fed) >= 4
    /\ get_event_type(fed[1]) = TimeHighTag
    /\ get_event_type(fed[2]) = 2
    /\ get_event_type(fed[3]) = 4
    /\ get_event_type(fed[4]) = 10
    /\ Len(OutputAfter(2).cd_events) = 1
    /\ Len(cd_events) = 7
    /\ Len(trigger_events) = 1

(***************************************************************************)
(* Properties of the per-word specification (StepSpec)                     *)
(***************************************************************************)
\* The last call was decode_buffer on one word.
Decoded == last.op = "decode_buffer"

\* ... and the decoder was armed (first_time_base_set) when it was made.
DecodedArmed == Decoded /\ last.self.first_time_base_set

LastType == RawEventType_from_u8(get_event_type(last.word))

\* Number of set bits among the low n bits of valid.
PopCount(valid, n) ==
    Cardinality({i \in 0..(n - 1) : (valid \div (2 ^ i)) % 2 = 1})

\* C3 as stated: for every armed decoder state and every next word,
\* current_time after the word is at least current_time before it.
C3_CurrentTimeNonDecreasing ==
    (DecodedArmed /\ ~panicked) =>
        decoder.current_time >= last.self.current_time

\* C3 amended: for every armed decoder state, current_time after a word is
\* at least current_time before it when the word is not a time word, when
\* it is a TIME_LOW whose value is at least the low part in force
\* (current_time - time_base), when it is a TIME_HIGH that raises time_base,
\* and when it is a TIME_HIGH detected as a wrap (n_time_high_loops
\* incremented).
C3_NonDecreasingUnlessTimeWordRegresses ==
    DecodedArmed =>
        LET pre == last.self
            value == time_get_value(last.word)
            covered ==
                \/ LastType \notin {"TimeLow", "TimeHigh"}
                \/ LastType = "TimeLow" /\ value >= pre.current_time - pre.time_base
                \/ LastType = "TimeHigh" /\ decoder.time_base > pre.time_base
                \/ LastType = "TimeHigh"
                      /\ decoder.n_time_high_loops > pre.n_time_high_loops
        IN  covered => decoder.current_time >= pre.current_time

\* C3 witness: a TIME_HIGH detected as a wrap, processed while the low part
\* of the clock was not zero.
C3_Witness ==
    /\ DecodedArmed
    /\ LastType = "TimeHigh"
    /\ decoder.n_time_high_loops = last.self.n_time_high_loops + 1
    /\ last.self.current_time > last.self.time_base
    /\ decoder.current_time > last.self.current_time

\* C5: pre-roll.  A decoder that is not armed has every clock and cursor
\* field at its initial value; a word other than TIME_HIGH given to it
\* changes no field and emits nothing; a TIME_HIGH sets time_base and
\* current_time to value << 12 and first_time_base_set to true, changes no
\* other field (n_time_high_loops stays 0) and emits nothing.
C5_PreRoll ==
    /\ ~decoder.first_time_base_set =>
          decoder = [Evt3Decoder_new EXCEPT !.metadata = decoder.metadata]
    /\ (Decoded /\ ~last.self.first_time_base_set) =>
          /\ Len(cd_events) = last.n_cd
          /\ Len(trigger_events) = last.n_trig
          /\ IF LastType = "TimeHigh"
             THEN /\ decoder =
                        [last.self EXCEPT
                            !.time_base = time_get_value(last.word) * 4096,
                            !.current_time = time_get_value(last.word) * 4096,
                            !.first_time_base_set = TRUE]
                  /\ decoder.n_time_high_loops = 0
             ELSE decoder = last.self

\* C5 witness: after a reset, an ADDR_Y word with y # 0 has been given to
\* the decoder, which is not armed, and discarded.
C5_Witness ==
    /\ Decoded
    /\ was_reset
    /\ ~last.self.first_time_base_set
    /\ LastType = "AddrY"
    /\ addr_y_get_y(last.word) # 0

\* C6: for every armed decoder state and every word, the number of CD events
\* the word appends is the popcount of its 12-bit mask (VECT_12), of its low
\* 8 bits (VECT_8), one (ADDR_X), zero (any other word).
C6_EventCount ==
    DecodedArmed =>
        Len(cd_events) - last.n_cd =
            CASE LastType = "Vect12" -> PopCount(vect_12_get_valid(last.word), 12)
              [] LastType = "Vect8"  -> PopCount(vect_8_get_valid(last.word), 8)
              [] LastType = "AddrX"  -> 1
              [] OTHER               -> 0

\* C7: for every armed decoder state, a VECT_12 word increases
\* current_base_x by exactly 12 and a VECT_8 word by exactly 8, whatever the
\* mask and however many vector words came before.
C7_BaseXAdvance ==
    DecodedArmed =>
        /\ LastType = "Vect12" =>
              decoder.current_base_x = last.self.current_base_x + 12
        /\ LastType = "Vect8" =>
              decoder.current_base_x = last.self.current_base_x + 8

\* C9: reset, from any state, leaves the decoder in the state of new()
\* except for metadata, which it leaves as it was.
C9_Reset ==
    last.op = "reset" =>
        decoder = [Evt3Decoder_new EXCEPT !.metadata = last.self.metadata]

\* C9 witness: reset of an armed decoder that has counted a wrap, with
\* cursor and clock fields set and a geometry that is not the default.
C9_Witness ==
    /\ last.op = "reset"
    /\ last.self.first_time_base_set
    /\ last.self.n_time_high_loops > 0
    /\ last.self.time_low > 0
    /\ last.self.current_y > 0
    /\ last.self.current_base_x > 0
    /\ last.self.current_polarity = 1
    /\ last.self.metadata # SensorMetadata_default

\* C10: TIME_HIGH wrap.  A TIME_HIGH word with value 0 processed when the
\* previous TIME_HIGH word had value 0xFFF increments n_time_high_loops by
\* exactly 1 and gives time_base (and current_time) the candidate
\* (0 << 12) + n_time_high_loops * TIME_LOOP advanced by TIME_LOOP; when no
\* wrap had been counted before, n_time_high_loops = 1 and
\* time_base = current_time = 16_777_216.
C10_TimeHighWrap ==
    (Decoded /\ LastType = "TimeHigh" /\ time_get_value(last.word) = 0
             /\ last.th = 4095) =>
        /\ decoder.n_time_high_loops = last.self.n_time_high_loops + 1
        /\ decoder.time_base = last.self.n_time_high_loops * TIME_LOOP + TIME_LOOP
        /\ decoder.current_time = decoder.time_base
        /\ last.self.n_time_high_loops = 0 =>
              /\ decoder.n_time_high_loops = 1
              /\ decoder.time_base = 16777216
              /\ decoder.current_time = 16777216

\* C10 witness: the first TIME_HIGH was 0xFFF, taken in the pre-roll, and
\* the next word is TIME_HIGH 0.
C10_Witness ==
    /\ Decoded /\ LastType = "TimeHigh" /\ time_get_value(last.word) = 0
    /\ last.th = 4095
    /\ last.self.n_time_high_loops = 0
    /\ last.self.time_low = 0
    /\ decoder.time_base = 16777216

\* C12: every CD event in the sink has x in 0..2047.
C12_XInRange ==
    \A i \in 1..Len(cd_events) : cd_events[i].x \in 0..2047

\* C13: every CD event in the sink has y in 0..2047 and polarity in {0, 1};
\* every trigger event in the sink has id in 0..15 and value in {0, 1}.
C13_FieldRanges ==
    /\ \A i \in 1..Len(cd_events) :
          /\ cd_events[i].y \in 0..2047
          /\ cd_events[i].polarity \in {0, 1}
    /\ \A i \in 1..Len(trigger_events) :
          /\ trigger_events[i].id \in 0..15
          /\ trigger_events[i].value \in {0, 1}

\* C13 witness: an EXT_TRIGGER word with bits 7:1 set and an ADDR_X word
\* with the polarity bit set have emitted events, the CD event at the y of
\* an ADDR_Y word that had its system-type bit set.
C13_Witness ==
    /\ Len(trigger_events) = 1
    /\ trigger_events[1].id = 2
    /\ trigger_events[1].value = 1
    /\ Len(cd_events) = 1
    /\ cd_events[1].y = 50
    /\ cd_events[1].polarity = 1

\* The last decode_buffer call made instead on a decoder that differs from
\* the one it was made on only in metadata: it has SensorMetadata::default().
TwinCall ==
    decode_buffer([last.self EXCEPT !.metadata = SensorMetadata_default],
                  <<last.word>>, last.cd_events, last.trigger_events,
                  overflow_checks)

\* C18: decoding is independent of metadata.  A decode_buffer call leaves
\* metadata as it was, and gives the same CD and trigger sequences, the same
\* cursor and clock fields (and the same panic, if any) as the call on a
\* decoder that differs only in metadata.width / height: no event is
\* dropped or clamped for lying outside width x height.
C18_MetadataIndependence ==
    Decoded =>
        /\ decoder.metadata = last.self.metadata
        /\ cd_events = TwinCall.cd_events
        /\ trigger_events = TwinCall.trigger_events
        /\ [decoder EXCEPT !.metadata = SensorMetadata_default] = TwinCall.self
        /\ panicked = TwinCall.panicked

\* C18 witness: with metadata set to 64 x 32, an ADDR_X word has emitted an
\* event with x = 100 >= width and y = 50 >= height.
C18_Witness ==
    /\ Decoded
    /\ LastType = "AddrX"
    /\ last.self.metadata = [width |-> 64, height |-> 32]
    /\ Len(cd_events) = last.n_cd + 1
    /\ cd_events[Len(cd_events)].x >= decoder.metadata.width
    /\ cd_events[Len(cd_events)].y >= decoder.metadata.height

\* C20: decode_buffer called with an empty slice appends nothing to either
\* sink and leaves every decoder field as it was, whether the decoder is
\* armed or not.
C20_EmptySlice ==
    last.op = "decode_empty" =>
        /\ decoder = last.self
        /\ cd_events = last.cd_events
        /\ trigger_events = last.trigger_events
        /\ ~panicked

\* C20 witness: the empty slice given to an armed decoder whose cursor and
\* clock fields are set, with an event in the CD sink.
C20_Witness ==
    /\ last.op = "decode_empty"
    /\ last.self.first_time_base_set
    /\ last.self.current_y > 0
    /\ last.self.current_base_x > 0
    /\ last.self.time_low > 0
    /\ last.cd_events # <<>>

(***************************************************************************)
(* Properties of the per-word specification (StepSpec): one word at a time *)
(***************************************************************************)
\* The sinks are as they were before the last call.
NothingEmitted ==
    /\ cd_events = last.cd_events
    /\ trigger_events = last.trigger_events

\* C21: armed TIME_HIGH transition.  With
\* candidate = (value << 12) + n_time_high_loops * 16_777_216: if time_base
\* is above candidate by at least 16_773_120 - 40_960, n_time_high_loops is
\* incremented and candidate advanced by 16_777_216, otherwise
\* n_time_high_loops is unchanged; in both cases time_base and current_time
\* become candidate.  time_low and the cursor fields are unchanged and
\* nothing is emitted.
C21_TimeHighTransition ==
    (DecodedArmed /\ LastType = "TimeHigh") =>
        LET pre == last.self
            candidate == ((last.word % 4096) * 4096)
                            + pre.n_time_high_loops * 16777216
            wrap == /\ pre.time_base > candidate
                    /\ pre.time_base - candidate >= 16773120 - 40960
            loops == IF wrap THEN pre.n_time_high_loops + 1
                     ELSE pre.n_time_high_loops
            final == IF wrap THEN candidate + 16777216 ELSE candidate
        IN  /\ decoder = [pre EXCEPT !.n_time_high_loops = loops,
                                     !.time_base = final,
                                     !.current_time = final]
            /\ decoder.time_low = pre.time_low
            /\ decoder.current_y = pre.current_y
            /\ decoder.current_base_x = pre.current_base_x
            /\ decoder.current_polarity = pre.current_polarity
            /\ NothingEmitted
            /\ ~panicked

\* C21 witness: a TIME_HIGH that is not a wrap, given to an armed decoder
\* that has counted a wrap and whose low part and cursor fields are set.
C21_Witness ==
    /\ DecodedArmed
    /\ LastType = "TimeHigh"
    /\ last.self.n_time_high_loops = 1
    /\ decoder.n_time_high_loops = 1
    /\ last.self.time_low > 0
    /\ last.self.current_y > 0
    /\ last.self.current_base_x > 0
    /\ decoder.time_base = 5 * 4096 + 16777216
    /\ decoder.current_time = decoder.time_base

\* C22: once armed, a TIME_HIGH word is counted as a wrap (n_time_high_loops
\* incremented by one) exactly when the value of the previous TIME_HIGH word
\* minus the value of the new one is at least 4085; a smaller step back
\* (1..4084), no step and a step forward leave n_time_high_loops unchanged.
C22_WrapThreshold ==
    (DecodedArmed /\ LastType = "TimeHigh") =>
        LET back == last.th - (last.word % 4096)
        IN  /\ last.th \in 0..4095
            /\ back >= 4085 =>
                  decoder.n_time_high_loops = last.self.n_time_high_loops + 1
            /\ back < 4085 =>
                  decoder.n_time_high_loops = last.self.n_time_high_loops

\* C22 witness: a TIME_HIGH exactly 4085 below the previous one, counted as
\* a wrap.
C22_Witness ==
    /\ DecodedArmed
    /\ LastType = "TimeHigh"
    /\ last.th - (last.word % 4096) = 4085
    /\ decoder.n_time_high_loops = last.self.n_time_high_loops + 1

\* A TIME_HIGH 4084 below the previous one, not counted as a wrap.
C22_JustBelow ==
    /\ DecodedArmed
    /\ LastType = "TimeHigh"
    /\ last.th - (last.word % 4096) = 4084
    /\ decoder.n_time_high_loops = last.self.n_time_high_loops
    /\ decoder.time_base < last.self.time_base

\* C23: armed ADDR_X transition.  The word appends exactly one CD event
\* {x = word & 0x7FF, polarity = bit 11 of the word, y = current_y,
\* timestamp = current_time} to the CD sink, appends no trigger event and
\* changes no decoder field.
C23_AddrXTransition ==
    (DecodedArmed /\ LastType = "AddrX") =>
        /\ cd_events =
              Append(last.cd_events,
                     [x |-> last.word % 2048,
                      y |-> last.self.current_y,
                      polarity |-> (last.word \div 2048) % 2,
                      timestamp |-> last.self.current_time])
        /\ trigger_events = last.trigger_events
        /\ decoder = last.self
        /\ ~panicked

\* C23 witness: an ADDR_X with polarity 1 given to an armed decoder whose
\* row, clock (with a low part) and vector cursor (polarity 0) are set.
C23_Witness ==
    /\ DecodedArmed
    /\ LastType = "AddrX"
    /\ last.self.current_y = 50
    /\ last.self.current_time > last.self.time_base
    /\ last.self.current_polarity = 0
    /\ last.self.current_base_x > 0
    /\ cd_events[Len(cd_events)] =
          [x |-> 100, y |-> 50, polarity |-> 1,
           timestamp |-> last.self.current_time]

\* The events of a vector word with mask valid over offsets 0..n-1, for a
\* decoder self: in increasing i, one event for each i with bit i set.
MaskEvents(self, valid, n) ==
    LET offsets == SelectSeq([k \in 1..n |-> k - 1],
                             LAMBDA i : (valid \div (2 ^ i)) % 2 = 1)
    IN  [j \in 1..Len(offsets) |->
            [x |-> self.current_base_x + offsets[j],
             y |-> self.current_y,
             polarity |-> self.current_polarity,
             timestamp |-> self.current_time]]

\* C24: armed VECT_12 transition.  For the 12-bit mask valid of the word and
\* the base b = current_base_x before it, the CD events appended are
\* exactly, in increasing i, one event {x = b + i, y = current_y,
\* polarity = current_polarity, timestamp = current_time} for each i in
\* 0..11 with bit i of valid set.
C24_Vect12Transition ==
    (DecodedArmed /\ LastType = "Vect12") =>
        cd_events = last.cd_events \o MaskEvents(last.self, last.word % 4096, 12)

\* The VECT_8 word with the mask of word and payload bits 11:8 clear.
Vect8LowBits(word) == Word(5, word % 256)

\* C25: armed VECT_8 transition.  The word behaves as a VECT_12 restricted
\* to offsets 0..7 with bits 7:0 of the word as the mask: it appends, in
\* increasing i, one event {x = b + i, y = current_y,
\* polarity = current_polarity, timestamp = current_time} for each i in 0..7
\* with bit i set, and advances current_base_x by 8.  Payload bits 11:8 are
\* ignored: the word with these bits clear, given to the same decoder,
\* appends the same events and leaves the same decoder.
C25_Vect8Transition ==
    (DecodedArmed /\ LastType = "Vect8") =>
        LET twin == decode_buffer(last.self, <<Vect8LowBits(last.word)>>,
                                  last.cd_events, last.trigger_events,
                                  overflow_checks)
        IN  /\ cd_events = last.cd_events \o MaskEvents(last.self, last.word % 256, 8)
            /\ decoder.current_base_x = last.self.current_base_x + 8
            /\ cd_events = twin.cd_events
            /\ decoder = twin.self

\* C26: armed EXT_TRIGGER transition.  The word appends exactly one trigger
\* event {id = bits 11:8 of the word, value = bit 0,
\* timestamp = current_time} to the trigger sink and no CD event; bits 7:1
\* have no effect; no decoder field changes.
C26_ExtTriggerTransition ==
    (DecodedArmed /\ LastType = "ExtTrigger") =>
        /\ trigger_events =
              Append(last.trigger_events,
                     [id |-> (last.word \div 256) % 16,
                      value |-> last.word % 2,
                      timestamp |-> last.self.current_time])
        /\ cd_events = last.cd_events
        /\ decoder = last.self
        /\ ~panicked

\* C26 witness: an EXT_TRIGGER with id 2, value 1 and bits 7:1 set, given
\* to an armed decoder whose clock has a low part, a trigger event and CD
\* events being in the sinks already.
C26_Witness ==
    /\ DecodedArmed
    /\ LastType = "ExtTrigger"
    /\ (last.word \div 2) % 128 = 127
    /\ last.self.current_time > last.self.time_base
    /\ last.trigger_events # <<>>
    /\ trigger_events[Len(trigger_events)] =
          [id |-> 2, value |-> 1, timestamp |-> last.self.current_time]

\* Words that are not time words, to follow a time word.
Followers ==
    {W_ADDR_Y_50, W_BASE_X_3, W_ADDR_X_100, W_VECT_12_E38, W_VECT_8_F05,
     W_TRIGGER_2FF, W_RESERVED_9}

\* Every event of events from index from + 1 on has timestamp t.
StampedFrom(events, from, t) ==
    \A i \in (from + 1)..Len(events) : events[i].timestamp = t

\* C27: armed TIME_LOW transition.  time_low becomes word & 0xFFF and
\* current_time becomes time_base + time_low; time_base, n_time_high_loops
\* and the cursor fields are unchanged and nothing is emitted.  The events
\* emitted by the words that follow, until the next time word, carry
\* time_base + value.
C27_TimeLowTransition ==
    (DecodedArmed /\ LastType = "TimeLow") =>
        LET pre == last.self
            value == last.word % 4096
        IN  /\ decoder = [pre EXCEPT !.time_low = value,
                                     !.current_time = pre.time_base + value]
            /\ decoder.time_base = pre.time_base
            /\ decoder.n_time_high_loops = pre.n_time_high_loops
            /\ decoder.current_y = pre.current_y
            /\ decoder.current_base_x = pre.current_base_x
            /\ decoder.current_polarity = pre.current_polarity
            /\ NothingEmitted
            /\ ~panicked
            /\ \A following \in Slices(Followers, 2) :
                  LET r == decode_buffer(decoder, following, cd_events,
                                         trigger_events, overflow_checks)
                  IN  /\ StampedFrom(r.cd_events, Len(cd_events),
                                     pre.time_base + value)
                      /\ StampedFrom(r.trigger_events, Len(trigger_events),
                                     pre.time_base + value)

\* C27 witness: a TIME_LOW given to an armed decoder that has counted a
\* wrap and whose clock had another low part, with the cursor set and an
\* event in the CD sink.
C27_Witness ==
    /\ DecodedArmed
    /\ LastType = "TimeLow"
    /\ last.self.n_time_high_loops = 1
    /\ last.self.time_low = 100
    /\ last.self.current_time = last.self.time_base + 100
    /\ last.self.current_y > 0
    /\ last.cd_events # <<>>
    /\ decoder.time_low = 4095
    /\ decoder.current_time = 16777216 + 4095

\* The tags of the words the decoder ignores: reserved (0x1, 0x9, 0xB, 0xC,
\* 0xD), CONTINUED_4 (0x7), OTHERS (0xE) and CONTINUED_12 (0xF).
IgnoredTags == {1, 9, 11, 12, 13, 7, 14, 15}

\* Words of a stream into which ignored words are inserted.
CarrierWords ==
    {W_TIME_HIGH_005, W_ADDR_X_100, W_VECT_8_F05, W_TRIGGER_2FF}

\* words with the words of extra inserted after its first at words.
InsertAt(words, at, extra) ==
    SubSeq(words, 1, at) \o extra \o SubSeq(words, at + 1, Len(words))

\* C28: a word with a reserved tag (0x1, 0x9, 0xB, 0xC, 0xD) or with tag
\* CONTINUED_4, OTHERS or CONTINUED_12 is a no-op in every state, armed or
\* not: it emits nothing and changes no decoder field.  Inserting such
\* words into a word stream, at any position and any number of them, leaves
\* both output sequences and the final state as they are without them.
C28_IgnoredWords ==
    (Decoded /\ (last.word \div 4096) % 16 \in IgnoredTags) =>
        /\ decoder = last.self
        /\ NothingEmitted
        /\ ~panicked
        /\ \A words \in Slices(CarrierWords, 2) :
              LET without == decode_buffer(last.self, words, last.cd_events,
                                           last.trigger_events, overflow_checks)
              IN  \A at \in 0..Len(words) :
                     \A extra \in {<<last.word>>, <<W_RESERVED_1, last.word>>} :
                        decode_buffer(last.self, InsertAt(words, at, extra),
                                      last.cd_events, last.trigger_events,
                                      overflow_checks) = without

\* C28 witness: a word with tag 0x9 given to an armed decoder whose clock
\* and cursor are set.
C28_Witness ==
    /\ DecodedArmed
    /\ (last.word \div 4096) % 16 = 9
    /\ last.self.time_base > 0
    /\ last.self.time_low > 0
    /\ last.self.current_y > 0
    /\ last.self.current_base_x > 0

\* A word with tag 0xF given to a decoder that is not armed.
C28_InPreRoll ==
    /\ Decoded
    /\ ~last.self.first_time_base_set
    /\ (last.word \div 4096) % 16 = 15

\* C29: armed ADDR_Y and VECT_BASE_X transitions.  Both emit nothing.
\* ADDR_Y changes current_y only, to word & 0x7FF (bit 11 has no effect);
\* VECT_BASE_X changes current_base_x and current_polarity only, to
\* word & 0x7FF and bit 11 of the word.  Neither changes a clock field.
C29_CursorWords ==
    /\ (DecodedArmed /\ LastType = "AddrY") =>
          /\ decoder = [last.self EXCEPT !.current_y = last.word % 2048]
          /\ NothingEmitted
          /\ ~panicked
    /\ (DecodedArmed /\ LastType = "VectBaseX") =>
          /\ decoder = [last.self EXCEPT
                           !.current_base_x = last.word % 2048,
                           !.current_polarity = (last.word \div 2048) % 2]
          /\ NothingEmitted
          /\ ~panicked
    /\ (DecodedArmed /\ LastType \in {"AddrY", "VectBaseX"}) =>
          /\ decoder.time_base = last.self.time_base
          /\ decoder.time_low = last.self.time_low
          /\ decoder.current_time = last.self.current_time
          /\ decoder.n_time_high_loops = last.self.n_time_high_loops

\* C29 witness: a VECT_BASE_X with polarity 0 given to an armed decoder
\* whose vector cursor has polarity 1 and whose row and clock are set.
C29_Witness ==
    /\ DecodedArmed
    /\ LastType = "VectBaseX"
    /\ last.self.current_polarity = 1
    /\ last.self.current_y > 0
    /\ last.self.time_low > 0
    /\ decoder.current_polarity = 0
    /\ decoder.current_base_x = 2047

\* An ADDR_Y with bit 11 set given to an armed decoder whose vector cursor
\* and clock are set.
C29_AddrYSeen ==
    /\ DecodedArmed
    /\ LastType = "AddrY"
    /\ last.word % 4096 >= 2048
    /\ last.self.current_y = 0
    /\ last.self.current_base_x > 0
    /\ decoder.current_y = 50

\* C35: whenever the armed TIME_HIGH transition detects a wrap (increments
\* n_time_high_loops), the new time_base is strictly greater than the
\* time_base before the word: the wrap never makes the clock go backwards.
C35_WrapMovesForward ==
    ( /\ DecodedArmed
      /\ LastType = "TimeHigh"
      /\ decoder.n_time_high_loops > last.self.n_time_high_loops ) =>
        /\ decoder.time_base > last.self.time_base
        /\ decoder.current_time > last.self.current_time

\* C35 witness: TIME_HIGH 0x000 after TIME_HIGH 0xFFF, the hardware wrap:
\* the value steps back by 4095 and time_base moves forward by 4096.
C35_Witness ==
    /\ DecodedArmed
    /\ LastType = "TimeHigh"
    /\ last.th = 4095
    /\ last.word % 4096 = 0
    /\ decoder.n_time_high_loops = last.self.n_time_high_loops + 1
    /\ decoder.time_base = last.self.time_base + 4096

\* C36: in every armed state, time_base is a multiple of 4096 and
\* n_time_high_loops * 16_777_216 <= time_base
\*                                 < (n_time_high_loops + 1) * 16_777_216;
\* precisely, time_base = (value of the most recent TIME_HIGH word << 12)
\* + n_time_high_loops * 16_777_216.
C36_TimeBaseShape ==
    decoder.first_time_base_set =>
        /\ last_time_high \in 0..4095
        /\ decoder.time_base =
              last_time_high * 4096 + decoder.n_time_high_loops * 16777216
        /\ decoder.time_base % 4096 = 0
        /\ decoder.n_time_high_loops * 16777216 <= decoder.time_base
        /\ decoder.time_base < (decoder.n_time_high_loops + 1) * 16777216

\* C36 witness: an armed decoder that has counted two wraps, its latest
\* TIME_HIGH value 5.
C36_Witness ==
    /\ decoder.first_time_base_set
    /\ decoder.n_time_high_loops = 2
    /\ last_time_high = 5
    /\ decoder.time_base = 5 * 4096 + 2 * 16777216

\* The events of events from index from + 1 on.
AppendedTo(events, from) ==
    {events[i] : i \in (from + 1)..Len(events)}

\* C37: in every state, time_low <= 4095 and current_time is either
\* time_base (after a TIME_HIGH, until the next TIME_LOW) or
\* time_base + time_low (after a TIME_LOW); hence
\* 0 <= current_time - time_base <= 4095, and every emitted timestamp lies
\* in [time_base, time_base + 4095] of the state that emitted it.
C37_ClockShape ==
    /\ decoder.time_low \in 0..4095
    /\ decoder.current_time \in
          {decoder.time_base, decoder.time_base + decoder.time_low}
    /\ decoder.current_time - decoder.time_base \in 0..4095
    /\ (Decoded /\ LastType = "TimeHigh") =>
          decoder.current_time = decoder.time_base
    /\ (DecodedArmed /\ LastType = "TimeLow") =>
          decoder.current_time = decoder.time_base + decoder.time_low
    /\ (Decoded /\ LastType \notin {"TimeHigh", "TimeLow"}) =>
          /\ decoder.current_time = last.self.current_time
          /\ decoder.time_base = last.self.time_base
          /\ decoder.time_low = last.self.time_low
    /\ Decoded =>
          \A e \in AppendedTo(cd_events, last.n_cd)
                      \cup AppendedTo(trigger_events, last.n_trig) :
             /\ last.self.time_base <= e.timestamp
             /\ e.timestamp <= last.self.time_base + 4095

\* C37 witness: a CD event emitted while the clock runs on a low part
\* (current_time = time_base + time_low, time_low > 0), after a wrap.
C37_Witness ==
    /\ DecodedArmed
    /\ LastType = "AddrX"
    /\ Len(cd_events) = last.n_cd + 1
    /\ decoder.n_time_high_loops = 1
    /\ decoder.time_low > 0
    /\ decoder.current_time = decoder.time_base + decoder.time_low
    /\ cd_events[Len(cd_events)].timestamp = decoder.current_time

\* An event emitted after a TIME_HIGH and before any TIME_LOW: it carries
\* time_base although time_low is not 0.
C37_AfterTimeHigh ==
    /\ DecodedArmed
    /\ LastType = "ExtTrigger"
    /\ Len(trigger_events) = last.n_trig + 1
    /\ decoder.time_low > 0
    /\ decoder.current_time = decoder.time_base
    /\ trigger_events[Len(trigger_events)].timestamp = decoder.time_base

\* C38: between resets, first_time_base_set never goes from true back to
\* false and n_time_high_loops never decreases, whatever the decode_buffer
\* calls and their words; n_time_high_loops increases by at most 1 per word
\* and only on TIME_HIGH words.
C38_ArmedAndLoopsMonotone ==
    last.op \in {"decode_buffer", "decode_empty", "set_metadata"} =>
        /\ last.self.first_time_base_set => decoder.first_time_base_set
        /\ decoder.n_time_high_loops >= last.self.n_time_high_loops
        /\ decoder.n_time_high_loops <= last.self.n_time_high_loops + 1
        /\ decoder.n_time_high_loops # last.self.n_time_high_loops =>
              /\ DecodedArmed
              /\ LastType = "TimeHigh"

\* C38 witness: a TIME_HIGH that is no wrap, given to an armed decoder
\* that has counted wraps: it stays armed and keeps its count.
C38_Witness ==
    /\ DecodedArmed
    /\ LastType = "TimeHigh"
    /\ last.self.n_time_high_loops = 1
    /\ last.th - (last.word % 4096) \in 1..4084
    /\ decoder.n_time_high_loops = 1
    /\ decoder.first_time_base_set

\* A second wrap counted, on top of the first.
C38_SecondWrap ==
    /\ DecodedArmed
    /\ LastType = "TimeHigh"
    /\ was_reset = FALSE
    /\ last.self.n_time_high_loops = 1
    /\ decoder.n_time_high_loops = 2

\* C39: for every word sequence, the 16-bit addition current_base_x + count
\* (count = 12 or 8) of the vector transition never exceeds 65535:
\* current_base_x never overflows u16, however many VECT_12 / VECT_8 words
\* follow one another with no VECT_BASE_X in between.
C39_BaseXFitsU16 ==
    /\ (DecodedArmed /\ LastType = "Vect12") =>
          last.self.current_base_x + 12 <= 65535
    /\ (DecodedArmed /\ LastType = "Vect8") =>
          last.self.current_base_x + 8 <= 65535
    /\ ~panicked

(***************************************************************************)
(* Properties of the cursor specification (CursorSpec)                     *)
(***************************************************************************)
TagOf(word) == (word \div 4096) % 16

\* The index in fed of the first TIME_HIGH, Len(fed) + 1 if there is none:
\* the words after it are given to an armed decoder.
ArmedFrom ==
    IF \E i \in 1..Len(fed) : TagOf(fed[i]) = 8
    THEN CHOOSE i \in 1..Len(fed) :
            /\ TagOf(fed[i]) = 8
            /\ \A j \in 1..(i - 1) : TagOf(fed[j]) # 8
    ELSE Len(fed) + 1

\* The offsets 0..n-1 of the set bits of valid, in increasing order.
SetBits(valid, n) ==
    SelectSeq([k \in 1..n |-> k - 1], LAMBDA i : (valid \div (2 ^ i)) % 2 = 1)

\* The mask of a vector word.
MaskOf(word) == IF TagOf(word) = 4 THEN word % 4096 ELSE word % 256

\* Number of CD events of an armed word, and by how much it moves the
\* vector cursor.
EventCount(word) ==
    CASE TagOf(word) = 2 -> 1
      [] TagOf(word) = 4 -> Len(SetBits(MaskOf(word), 12))
      [] TagOf(word) = 5 -> Len(SetBits(MaskOf(word), 8))
      [] OTHER           -> 0

Advance(word) ==
    CASE TagOf(word) = 4 -> 12
      [] TagOf(word) = 5 -> 8
      [] OTHER           -> 0

RECURSIVE EventsIn(_, _)
EventsIn(from, to) ==
    IF from > to THEN 0 ELSE EventCount(fed[to]) + EventsIn(from, to - 1)

RECURSIVE AdvanceIn(_, _)
AdvanceIn(from, to) ==
    IF from > to THEN 0 ELSE Advance(fed[to]) + AdvanceIn(from, to - 1)

\* C30: initial-state defaults.  On a new or reset decoder, after the first
\* TIME_HIGH has armed it, an ADDR_X that comes before any ADDR_Y given
\* since the arming yields an event with y = 0, and a VECT_12 / VECT_8 that
\* comes before any VECT_BASE_X given since the arming yields events with
\* polarity 0 and x counted from base 0 (the offsets of its set bits, after
\* the 12 or 8 of every vector word before it).  ADDR_Y and VECT_BASE_X
\* words given before the arming TIME_HIGH set nothing.
C30_InitialDefaults ==
    \A k \in (ArmedFrom + 1)..Len(fed) :
       LET before == (ArmedFrom + 1)..(k - 1)
           first == EventsIn(ArmedFrom + 1, k - 1)
           bits == SetBits(MaskOf(fed[k]), Advance(fed[k]))
           base == AdvanceIn(ArmedFrom + 1, k - 1)
       IN  /\ Len(cd_events) >= first + EventCount(fed[k])
           /\ (TagOf(fed[k]) = 2 /\ \A j \in before : TagOf(fed[j]) # 0) =>
                 cd_events[first + 1].y = 0
           /\ (TagOf(fed[k]) \in {4, 5} /\ \A j \in before : TagOf(fed[j]) # 3) =>
                 \A i \in 1..Len(bits) :
                    /\ cd_events[first + i].x = base + bits[i]
                    /\ cd_events[first + i].polarity = 0

\* C30 witness: a reset decoder is given VECT_BASE_X (x = 3, polarity 1)
\* and ADDR_Y (y = 50) before the TIME_HIGH that arms it, then a VECT_12
\* with mask 0xE38, whose events start at x = 3 with polarity 0 and y = 0.
C30_Witness ==
    /\ was_reset
    /\ fed = <<W_BASE_X_3, W_ADDR_Y_50, W_TIME_HIGH_005, W_VECT_12_E38>>
    /\ Len(cd_events) = 6
    /\ cd_events[1] = [x |-> 3, y |-> 0, polarity |-> 0, timestamp |-> 5 * 4096]

\* A reset decoder is given ADDR_Y (y = 50) before the TIME_HIGH that arms
\* it, then ADDR_X: the event has y = 0.
C30_AddrXSeen ==
    /\ was_reset
    /\ fed = <<W_ADDR_Y_50, W_TIME_HIGH_005, W_ADDR_X_100>>
    /\ cd_events = <<[x |-> 100, y |-> 0, polarity |-> 1, timestamp |-> 5 * 4096]>>

(***************************************************************************)
(* Properties of the file specification (FileSpec)                         *)
(***************************************************************************)
Returned == pc = "returned"

\* The bytes of the file after the header.
Payload == Drop(file, data_start)

\* The decoder when the read loop starts: as before the call, with the
\* metadata of the header.
AtDataStart == [last.self EXCEPT !.metadata = decoder.metadata]

\* One decode_buffer call on the words of bytes, into empty sinks.
OneCall(bytes) ==
    decode_buffer(AtDataStart, WordsLE(bytes), <<>>, <<>>, overflow_checks)

\* C14: whatever byte counts the reads return, decode_file decodes exactly
\* the word sequence of the post-header bytes paired from the first one:
\* the words given to decode_buffer are those words, and the returned
\* cd_events and trigger_events are those of one decode_buffer call on them
\* from the same starting state.
C14_DecodesThePairedPayload ==
    (Returned /\ result.kind = "Ok") =>
        /\ fed = WordsLE(Payload)
        /\ result.cd_events = OneCall(Payload).cd_events
        /\ result.trigger_events = OneCall(Payload).trigger_events

\* The sequences of byte counts in which reads can deliver n bytes.
RECURSIVE ReadCounts(_)
ReadCounts(n) ==
    IF n = 0 THEN {<<>>}
    ELSE UNION { {<<k>> \o c : c \in ReadCounts(n - k)} : k \in 1..Min(MaxRead, n) }

\* C15: a file whose payload has an odd number of bytes is decoded without
\* error when no read fails, and the events returned are those decode_file
\* returns for the file without its last byte, however that file is read.
C15_OddPayload ==
    (Returned /\ io_error = "None" /\ Len(Payload) % 2 = 1) =>
        /\ result.kind = "Ok"
        /\ \A counts \in ReadCounts(Len(Payload) - 1) :
              LET shorter ==
                      ReadLoop([self |-> AtDataStart, cd_events |-> <<>>,
                                trigger_events |-> <<>>, panicked |-> FALSE],
                               Take(file, Len(file) - 1), data_start, counts,
                               overflow_checks)
              IN  /\ result.cd_events = shorter.cd_events
                  /\ result.trigger_events = shorter.trigger_events

\* What one decode_buffer call on the words decoded so far leaves, from the
\* state at the start of the read loop.
Decoded_so_far == decode_buffer(AtDataStart, fed, <<>>, <<>>, overflow_checks)

\* C16 as stated: when a read fails after chunks that pushed events have
\* been decoded, decode_file returns the Io error and the caller holds the
\* events of those chunks.
C16_EventsRetainedOnError ==
    (Returned /\ io_error = "Os" /\ (cd_events # <<>> \/ trigger_events # <<>>)) =>
        /\ result.kind = "Err" /\ result.error = "Io"
        /\ "cd_events" \in DOMAIN result /\ result.cd_events = cd_events
        /\ "trigger_events" \in DOMAIN result
        /\ result.trigger_events = trigger_events

\* C16 amended: when a read fails, decode_file returns the Io error and
\* nothing else: the value the caller receives is Err(Io), without the
\* events that the earlier chunks pushed into the two vectors of
\* decode_file; the decoder is left in the state that the header lines and
\* the words decoded before the failure produce.
C16_ErrorOnlyOnReadFailure ==
    (Returned /\ io_error # "None") =>
        /\ result = ErrResult("Io")
        /\ cd_events = Decoded_so_far.cd_events
        /\ trigger_events = Decoded_so_far.trigger_events
        /\ decoder = Decoded_so_far.self

\* C16 witness: a read has failed after chunks that armed the decoder and
\* pushed a CD event.
C16_Witness ==
    /\ Returned
    /\ io_error = "Os"
    /\ ~last.self.first_time_base_set
    /\ decoder.first_time_base_set
    /\ cd_events # <<>>
    /\ result = ErrResult("Io")

\* C17: decode_file returns Ok or Err(Io), never another error; it returns
\* Err only when a read call returned an error (the operating system's, or
\* read_line's for a header line that is not UTF-8); when none does, it
\* returns Ok wherever the end of the file falls.
C17_OkOrIoError ==
    Returned =>
        /\ result.kind \in {"Ok", "Err"}
        /\ result.kind = "Err" => (result.error = "Io" /\ io_error # "None")
        /\ io_error = "None" => result.kind = "Ok"
        /\ io_error = "InvalidData" => ~IsUtf8(Take(file, pos))

\* C17 witness: the file ends inside the header, in a line with no line
\* end, and decode_file has returned Ok.
C17_Witness ==
    /\ Returned
    /\ result.kind = "Ok"
    /\ file # <<>>
    /\ data_start = Len(file)
    /\ file[Len(file)] # 10

(***************************************************************************)
(* Properties of the file specification (FileSpec): the header             *)
(***************************************************************************)
\* The number of bytes of a file that make its header, counted from `at`
\* bytes on, `at` being the start of a line: none at the end of the file or
\* when the next byte is not '%' (37); otherwise the line up to and with its
\* LF (10), or up to the end of the file, and, unless that line starts
\* with "% end" (37 32 101 110 100), the header from the next line on.
RECURSIVE HeaderEnd(_, _)
HeaderEnd(bytes, at) ==
    IF at >= Len(bytes) \/ bytes[at + 1] # 37 THEN at
    ELSE LET lfs == {i \in (at + 1)..Len(bytes) : bytes[i] = 10}
             end == IF lfs = {} THEN Len(bytes)
                    ELSE CHOOSE i \in lfs : \A j \in lfs : i <= j
         IN  IF end - at >= 5
                /\ SubSeq(bytes, at + 1, at + 5) = <<37, 32, 101, 110, 100>>
             THEN end
             ELSE HeaderEnd(bytes, end)

\* The words of the reads that deliver the bytes after `at` in the byte
\* counts of `counts`, each read paired from its own first byte.
RECURSIVE DataWords(_, _)
DataWords(at, counts) ==
    IF counts = <<>> THEN <<>>
    ELSE WordsLE(SubSeq(file, at + 1, at + counts[1]))
            \o DataWords(at + counts[1], Drop(counts, 1))

\* The header has been read without error.
HeaderDone == pc = "data" \/ (Returned /\ result.kind = "Ok")

\* C31: header termination in decode_file.  Header lines are consumed only
\* while the next unread byte is '%'.  The first line that starts with
\* "% end" is consumed and ends the header; every byte after it is event
\* data, '%' or not.  Without such a line the header ends before the first
\* byte at the start of a line that is not '%', and this byte is the first
\* byte of the event data.
C31_HeaderTermination ==
    /\ pc = "header" =>
          /\ pos <= HeaderEnd(file, 0)
          /\ pos = 0 \/ file[pos] = 10 \/ pos = Len(file)
          /\ \A i \in 1..pos : (i = 1 \/ file[i - 1] = 10) => file[i] = 37
    /\ HeaderDone =>
          /\ data_start = HeaderEnd(file, 0)
          /\ pos >= data_start
          /\ Returned =>
                /\ pos = Len(file)
                /\ \E counts \in ReadCounts(Len(file) - data_start) :
                      fed = DataWords(data_start, counts)

\* C31 witness: the file is "% geometry 640x480\n% end\n" followed by the
\* words 0x2825 and 0x8005; the first byte after the "% end" line is '%'
\* and the word it belongs to has been decoded.
C31_Witness ==
    /\ Returned
    /\ result.kind = "Ok"
    /\ data_start = 25
    /\ file[24] = 100
    /\ Len(file) = 29
    /\ file[26] = 37
    /\ fed = <<W_ADDR_X_25, W_TIME_HIGH_005>>

\* The file is "% geometry 64x32\n" followed by the words 0x8005 and 0x2864:
\* the header ends before the byte 0x05, which is the first byte read as
\* data.
C31_NoEndLine ==
    /\ Returned
    /\ result.kind = "Ok"
    /\ data_start = 17
    /\ Len(file) = 21
    /\ file[18] = 5
    /\ fed = <<W_TIME_HIGH_005, W_ADDR_X_100>>
    /\ decoder.metadata = [width |-> 64, height |-> 32]

\* C32: header parsing never fails and touches only metadata.  No '%'-line
\* of a file, whatever it holds, makes decode_file return an error, and
\* while the header is read no decoder field other than metadata changes.
C32_HeaderNeverFails ==
    /\ io_error # "InvalidData"
    /\ (Returned /\ io_error # "Os") => result.kind = "Ok"
    /\ (pc = "header" \/ (pc = "data" /\ pos = data_start)) =>
          decoder = [last.self EXCEPT !.metadata = decoder.metadata]

(***************************************************************************)
(* Properties of the header-line specification (LineSpec)                  *)
(***************************************************************************)
LineParsed == last.op = "parse_header_line"

\* parse_header_line returns nothing and changes no field but metadata; in
\* a `% format` line a malformed width leaves width as it was and the
\* height of the same line is applied, and the other way round.
LinesTouchOnlyMetadata ==
    LineParsed =>
        /\ decoder = [last.self EXCEPT !.metadata = decoder.metadata]
        /\ file = L_FORMAT_BAD_WIDTH =>
              decoder.metadata = [last.self.metadata EXCEPT !.height = 32]
        /\ file = L_FORMAT_WIDE =>
              decoder.metadata = [last.self.metadata EXCEPT !.height = 32]
        /\ file = L_FORMAT_BAD_HEIGHT =>
              decoder.metadata = [last.self.metadata EXCEPT !.width = 64]
        /\ file \in {L_FORMAT_NO_KEYS, L_EVT_30, L_EVT_21, L_DATE,
                     L_FORMAT_NO_SPACE} =>
              decoder = last.self

\* The lines `% format EVT3;width=W;height=H` of HeaderLines, with W and H.
FormatLines ==
    { [line |-> L_FORMAT_640_480, width |-> 640, height |-> 480],
      [line |-> L_FORMAT_64_32_LF, width |-> 64, height |-> 32] }

\* C33: parsing the header line `% format EVT3;width=W;height=H`, W and H
\* valid u32 values, from any prior metadata yields metadata = {W, H};
\* parsing the same line again leaves metadata (and the decoder) as it is.
C33_FormatLine ==
    \A f \in FormatLines :
       (LineParsed /\ file = f.line) =>
          /\ decoder.metadata = [width |-> f.width, height |-> f.height]
          /\ parse_header_line(decoder, f.line) = decoder
          /\ last.self.metadata = [width |-> f.width, height |-> f.height] =>
                decoder = last.self

\* C33 witness: "% format EVT3;width=640;height=480" parsed a second time,
\* right after the first, by a decoder that had the geometry 800x600.
C33_Witness ==
    /\ LineParsed
    /\ steps = 2
    /\ file = L_FORMAT_640_480
    /\ last.self.metadata = [width |-> 640, height |-> 480]
    /\ last.self.first_time_base_set
    /\ decoder.metadata = [width |-> 640, height |-> 480]

\* The lines `% geometry ...` of HeaderLines: those in which both dimensions
\* parse, with the dimensions, and those in which one does not or the 'x'
\* is missing.
GeometryLines ==
    { [line |-> L_GEOMETRY_320_240, ok |-> TRUE, width |-> 320, height |-> 240],
      [line |-> L_GEOMETRY_64_32_CRLF, ok |-> TRUE, width |-> 64, height |-> 32],
      [line |-> L_GEOMETRY_NO_HEIGHT, ok |-> FALSE, width |-> 0, height |-> 0],
      [line |-> L_GEOMETRY_NO_WIDTH, ok |-> FALSE, width |-> 0, height |-> 0],
      [line |-> L_GEOMETRY_BAD_HEIGHT, ok |-> FALSE, width |-> 0, height |-> 0],
      [line |-> L_GEOMETRY_NO_X, ok |-> FALSE, width |-> 0, height |-> 0],
      [line |-> L_GEOMETRY_TWO_X, ok |-> FALSE, width |-> 0, height |-> 0] }

\* C34: a `% geometry <W>x<H>` line updates width and height together: if
\* both W and H parse, both dimensions are set; if either does not parse,
\* or the 'x' is missing, neither width nor height changes.
C34_GeometryLine ==
    \A g \in GeometryLines :
       (LineParsed /\ file = g.line) =>
          IF g.ok
          THEN decoder = [last.self EXCEPT
                             !.metadata = [width |-> g.width, height |-> g.height]]
          ELSE decoder = last.self

\* C34 witness: "% geometry 320x" (no height) parsed by a decoder to which
\* an earlier line gave the geometry 64x32.
C34_Witness ==
    /\ LineParsed
    /\ file = L_GEOMETRY_NO_HEIGHT
    /\ last.self.metadata = [width |-> 64, height |-> 32]
    /\ decoder.metadata = [width |-> 64, height |-> 32]

\* "% geometry 64x32\r\n" parsed by an armed decoder with geometry 800x600.
C34_BothSet ==
    /\ LineParsed
    /\ file = L_GEOMETRY_64_32_CRLF
    /\ last.self.metadata = [width |-> 800, height |-> 600]
    /\ last.self.first_time_base_set
    /\ decoder.metadata = [width |-> 64, height |-> 32]

\* The clock and cursor fields of a decoder.
ClockAndCursor(self) ==
    <<self.first_time_base_set, self.time_base, self.n_time_high_loops,
      self.current_y, self.current_base_x, self.current_polarity>>

\* A decoder as new() creates it, with the metadata of self.
NewWithMetadataOf(self) ==
    [Evt3Decoder_new EXCEPT !.metadata = self.metadata]

\* C40: decode_file does not reset the cursor and clock state: it starts
\* from the state the decoder is in, so that a second decode_file on the
\* same decoder without reset continues with first_time_base_set,
\* time_base, n_time_high_loops, current_y, current_base_x and
\* current_polarity as the first one left them.  After reset, decode_file
\* returns what a newly created decoder returns, on the file of the first
\* call the first result, while the metadata parsed from the earlier header
\* persists.
C40_DecodeFileDoesNotReset ==
    /\ last.op = "reset" =>
          /\ decoder = NewWithMetadataOf(last.self)
          /\ decoder.metadata = last.self.metadata
    /\ (last.op = "decode_file" /\ was_reset) =>
          last.self = NewWithMetadataOf(last.self)
    /\ (last.op = "decode_file" /\ pc \in {"header", "data"} /\ fed = <<>>) =>
          ClockAndCursor(decoder) = ClockAndCursor(last.self)
    /\ (Returned /\ result.kind = "Ok") =>
          LET r == decode_buffer(AtDataStart, fed, <<>>, <<>>, overflow_checks)
          IN  /\ decoder = r.self
              /\ result = OkResult(r.cd_events, r.trigger_events, decoder.metadata)
              /\ fed = <<>> => ClockAndCursor(decoder) = ClockAndCursor(last.self)
              /\ data_start = 0 => result.metadata = last.self.metadata
              /\ (was_reset /\ file = FirstFile /\ fed = WordsLE(Payload)) =>
                    result = FirstCall.result

\* C40 witness: the second decode_file of FirstFile on the same decoder
\* without reset: ADDR_X, skipped by the first call, now yields an event
\* with the time base the first call left.
C40_Witness ==
    /\ Returned
    /\ result.kind = "Ok"
    /\ ~was_reset
    /\ file = FirstFile
    /\ last.self = FirstCall.self
    /\ fed = <<W_ADDR_X_100, W_TIME_HIGH_005>>
    /\ FirstCall.result.cd_events = <<>>
    /\ result.cd_events =
          <<[x |-> 100, y |-> 0, polarity |-> 1, timestamp |-> 5 * 4096]>>

\* The second decode_file of FirstFile after reset: the first result.
C40_AfterReset ==
    /\ Returned
    /\ was_reset
    /\ file = FirstFile
    /\ fed = <<W_ADDR_X_100, W_TIME_HIGH_005>>
    /\ result = FirstCall.result
    /\ result.metadata = [width |-> 640, height |-> 480]

\* A file with no header decoded after the first call and a reset: the
\* geometry of the first file's header is returned.
C40_MetadataPersists ==
    /\ Returned
    /\ result.kind = "Ok"
    /\ was_reset
    /\ data_start = 0
    /\ fed # <<>>
    /\ result.metadata = [width |-> 640, height |-> 480]

(***************************************************************************)
(* Properties of the two-instance specification (TwoSpec)                  *)
(***************************************************************************)
\* The calls of `calls` made on instance who, run alone, in their order, on
\* a decoder created by new() with empty sinks.
RECURSIVE RunAlone(_, _, _)
RunAlone(r, who, i) ==
    IF i > Len(calls) THEN r
    ELSE IF calls[i].who # who THEN RunAlone(r, who, i + 1)
    ELSE IF calls[i].op = "reset"
         THEN RunAlone([r EXCEPT !.self = reset(r.self)], who, i + 1)
         ELSE RunAlone(decode_buffer(r.self, calls[i].words, r.cd_events,
                                     r.trigger_events, overflow_checks),
                       who, i + 1)

\* C19: under every interleaving of decode_buffer / reset calls on the two
\* instances, the sinks and the state of each instance are those its own
\* calls produce when they are run alone.
C19_InstancesDoNotInteract ==
    /\ [self |-> decoder, cd_events |-> cd_events,
        trigger_events |-> trigger_events, panicked |-> panicked]
          = RunAlone(Fresh, "A", 1)
    /\ other = RunAlone(Fresh, "B", 1)

\* C19 witness: calls on A and B have alternated, A, B, A, B; both are
\* armed, at different clocks, and hold different CD events.
C19_Witness ==
    /\ Len(calls) = 4
    /\ calls[1].who = "A" /\ calls[2].who = "B"
    /\ calls[3].who = "A" /\ calls[4].who = "B"
    /\ decoder.first_time_base_set /\ other.self.first_time_base_set
    /\ cd_events # <<>> /\ other.cd_events # <<>>
    /\ cd_events # other.cd_events

====
